---- MODULE Spec2Model ----
(***************************************************************************)
(* A model of browser-node: the GitHub repository importer (modular        *)
(* GitHubRepository and the consolidated single-file loader), the          *)
(* terminal-output classifier, project type detection and the session      *)
(* wiring between shell output and the preview.                            *)
(*                                                                         *)
(* Strings the code takes apart are modelled by their parts: a URL or a    *)
(* path is the sequence of its '/'-separated parts ("a/b" is <<"a","b">>,  *)
(* the empty string is <<"">>), a terminal chunk is a sequence of tokens.  *)
(***************************************************************************)
EXTENDS Integers, Sequences, FiniteSets, TLC

\* JS object spread {...a, ...b}: b's keys win
Spread(a, b) == b @@ a

EmptyObj == <<>>

Has(obj, key) == key \in DOMAIN obj

\* JS truthiness of obj[key] for string-valued objects: present and not ""
Truthy(obj, key) == key \in DOMAIN obj /\ obj[key] # ""

RECURSIVE SeqToSet(_)
SeqToSet(s) == IF s = <<>> THEN {} ELSE {Head(s)} \cup SeqToSet(Tail(s))

(***************************************************************************)
(* URLs                                                                    *)
(***************************************************************************)
UrlWidgets == <<"https:", "", "github.com", "acme", "widgets">>
UrlGadgetsGit == <<"https:", "", "github.com", "acme", "gadgets.git">>
UrlSsh == <<"git@github.com:acme", "widgets.git">>
UrlExample == <<"https:", "", "example.com", "a", "b">>
UrlOwnerOnly == <<"https:", "", "github.com", "acme">>
UrlQuery == <<"https:", "", "github.com", "acme", "widgets?tab=readme">>

Urls == {UrlWidgets, UrlGadgetsGit, UrlSsh, UrlExample, UrlOwnerOnly, UrlQuery}

\* the URLs that name a GitHub repository
GitHubUrls == {UrlWidgets, UrlGadgetsGit, UrlSsh, UrlQuery}

NoUrl == <<"">>

\* a part that ends in "github.com", so that "github.com/" occurs in the URL
EndsWithGitHubCom(part) == part = "github.com"

\* a part of the form "git@github.com:<owner>"
IsSshHead(part) == part = "git@github.com:acme"

SshOwner(part) == IF part = "git@github.com:acme" THEN "acme" ELSE ""

HasGitSuffix(part) == part \in {"widgets.git", "gadgets.git"}

\* repo.replace(/\.git$/, '')
StripGitSuffix(part) ==
    CASE part = "widgets.git" -> "widgets"
      [] part = "gadgets.git" -> "gadgets"
      [] OTHER -> part

\* characters of WebContainerHelper.isValidPath's third pattern, or ".."
HasInvalidChars(part) == part \in {"widgets?tab=readme", "https:", "git@github.com:acme", ".."}

NoMatch == [ok |-> FALSE, owner |-> "", repo |-> ""]

\* leftmost match of /github\.com\/([^\/]+)\/([^\/]+)/
MatchHttps(url) ==
    LET at == {i \in 1..(Len(url) - 2) :
                  EndsWithGitHubCom(url[i]) /\ url[i + 1] # "" /\ url[i + 2] # ""}
    IN  IF at = {} THEN NoMatch
        ELSE LET i == CHOOSE j \in at : \A k \in at : j <= k
             IN  [ok |-> TRUE, owner |-> url[i + 1], repo |-> url[i + 2]]

\* leftmost match of /github\.com\/([^\/]+)\/([^\/]+)\.git/
MatchHttpsGit(url) ==
    LET at == {i \in 1..(Len(url) - 2) :
                  EndsWithGitHubCom(url[i]) /\ url[i + 1] # "" /\ HasGitSuffix(url[i + 2])}
    IN  IF at = {} THEN NoMatch
        ELSE LET i == CHOOSE j \in at : \A k \in at : j <= k
             IN  [ok |-> TRUE, owner |-> url[i + 1], repo |-> StripGitSuffix(url[i + 2])]

\* leftmost match of /git@github\.com:([^\/]+)\/([^\/]+)\.git/
MatchSsh(url) ==
    LET at == {i \in 1..(Len(url) - 1) : IsSshHead(url[i]) /\ HasGitSuffix(url[i + 1])}
    IN  IF at = {} THEN NoMatch
        ELSE LET i == CHOOSE j \in at : \A k \in at : j <= k
             IN  [ok |-> TRUE, owner |-> SshOwner(url[i]), repo |-> StripGitSuffix(url[i + 1])]

\* utils/github.js parseGitHubUrl: the first pattern of the list that matches
parseGitHubUrl(url) ==
    IF url = <<"">> THEN NoMatch
    ELSE LET m1 == MatchHttps(url)
             m2 == MatchHttpsGit(url)
             m3 == MatchSsh(url)
             m  == IF m1.ok THEN m1 ELSE IF m2.ok THEN m2 ELSE m3
         IN  IF m.ok THEN [m EXCEPT !.repo = StripGitSuffix(m.repo)] ELSE NoMatch

\* githubUrl.replace('https://github.com/', '').split('/')
ConsolidatedUrlParts(url) ==
    LET at == {i \in 1..(Len(url) - 3) :
                  url[i] = "https:" /\ url[i + 1] = "" /\ url[i + 2] = "github.com"}
    IN  IF at = {} THEN url
        ELSE LET i == CHOOSE j \in at : \A k \in at : j <= k
             IN  SubSeq(url, 1, i - 1) \o SubSeq(url, i + 3, Len(url))

\* main-consolidated.js loadGitHubRepository's own parse step
ConsolidatedParse(url) ==
    LET urlParts == ConsolidatedUrlParts(url)
    IN  IF Len(urlParts) < 2 THEN NoMatch
        ELSE [ok |-> TRUE, owner |-> urlParts[1], repo |-> urlParts[2]]

(***************************************************************************)
(* Paths of the virtual filesystem: a normalized absolute path is the      *)
(* sequence of its non-empty segments, the root is <<>>.                   *)
(***************************************************************************)
RECURSIVE DropEmpty(_)
DropEmpty(parts) ==
    IF parts = <<>> THEN <<>>
    ELSE IF Head(parts) = "" THEN DropEmpty(Tail(parts))
    ELSE <<Head(parts)>> \o DropEmpty(Tail(parts))

\* WebContainerHelper.normalizePath: leading slash, no duplicate or trailing slash
normalizePath(parts) == DropEmpty(parts)

\* WebContainerHelper.isValidPath on a normalized path
isValidPath(path) == path # <<>> /\ \A i \in 1..Len(path) : ~HasInvalidChars(path[i])

Parent(path) == SubSeq(path, 1, Len(path) - 1)

IsPrefix(p, q) == Len(p) <= Len(q) /\ SubSeq(q, 1, Len(p)) = p

Ancestors(path) == {SubSeq(path, 1, n) : n \in 1..Len(path)}

\* fs.mkdir(path, {recursive: true}) fails when a file is in the way
FsMkdirOk(files, path) == \A a \in Ancestors(path) : a \notin DOMAIN files

\* fs.writeFile(path) needs the parent directory and no directory at path
FsWriteOk(files, dirSet, path) ==
    /\ path # <<>>
    /\ path \notin dirSet
    /\ (Len(path) = 1 \/ Parent(path) \in dirSet)

FsWrite(files, path, content) ==
    [q \in DOMAIN files \cup {path} |-> IF q = path THEN content ELSE files[q]]

\* fs.stat(path) succeeds for a file or a directory
FsExists(files, dirSet, path) == path \in DOMAIN files \/ path \in dirSet \/ path = <<>>

(***************************************************************************)
(* File contents                                                           *)
(***************************************************************************)
Content(kind, owner, repo, json) == [kind |-> kind, owner |-> owner, repo |-> repo, json |-> json]

NoContent == Content("none", "", "", EmptyObj)

WorkspaceFile == Content("workspace", "", "", EmptyObj)

\* createInitialEnvironment: the welcome package.json, README.md and index.js
InitialFiles ==
    (<<"package.json">> :> WorkspaceFile) @@ (<<"README.md">> :> WorkspaceFile)
        @@ (<<"index.js">> :> WorkspaceFile)

(***************************************************************************)
(* Remote manifests (the package.json a repository may hold)               *)
(***************************************************************************)
ManifestAstro ==
    ("name" :> "simple-astro") @@ ("dependencies" :> ("astro" :> "^4.0.0"))

ManifestPlain ==
    ("name" :> "remote-name") @@ ("version" :> "2.0.0")
        @@ ("scripts" :> (("dev" :> "b") @@ ("build" :> "c")))

\* packageJsonContent: none (not fetched), invalid (not JSON), json (parses)
RemoteManifests ==
    {NoContent, Content("invalid", "", "", EmptyObj),
     Content("json", "", "", ManifestAstro), Content("json", "", "", ManifestPlain)}

ObjField(obj, key) == IF key \in DOMAIN obj THEN obj[key] ELSE EmptyObj

(***************************************************************************)
(* ProjectTypeHelper                                                       *)
(***************************************************************************)
NodeConfig ==
    [devCommand |-> "npm start",
     directories |-> << <<"src">>, <<"lib">> >>,
     mainFiles |-> << <<"index.js">>, <<"app.js">>, <<"server.js">> >>,
     configFiles |-> << >>,
     dependencies |-> EmptyObj,
     scripts |-> ("start" :> "node index.js") @@ ("dev" :> "node index.js")]

AstroConfig ==
    [devCommand |-> "npm run dev",
     directories |-> << <<"src">>, <<"src", "pages">>, <<"src", "components">>,
                        <<"src", "layouts">>, <<"public">> >>,
     mainFiles |-> << <<"src", "pages", "index.astro">> >>,
     configFiles |-> << <<"astro.config.mjs">> >>,
     dependencies |-> ("astro" :> "^4.0.0"),
     scripts |-> ("dev" :> "astro dev") @@ ("start" :> "astro dev")
                    @@ ("build" :> "astro build") @@ ("preview" :> "astro preview")]

NextConfig ==
    [devCommand |-> "npm run dev",
     directories |-> << <<"pages">>, <<"components">>, <<"public">>, <<"styles">> >>,
     mainFiles |-> << <<"pages", "index.js">>, <<"pages", "index.tsx">> >>,
     configFiles |-> << <<"next.config.js">> >>,
     dependencies |-> ("next" :> "^14.0.0") @@ ("react" :> "^18.0.0") @@ ("react-dom" :> "^18.0.0"),
     scripts |-> ("dev" :> "next dev") @@ ("build" :> "next build") @@ ("start" :> "next start")]

ReactConfig ==
    [devCommand |-> "npm start",
     directories |-> << <<"src">>, <<"public">> >>,
     mainFiles |-> << <<"src", "App.js">>, <<"src", "App.jsx">>, <<"src", "index.js">> >>,
     configFiles |-> << >>,
     dependencies |-> ("react" :> "^18.0.0") @@ ("react-dom" :> "^18.0.0"),
     scripts |-> ("start" :> "react-scripts start") @@ ("build" :> "react-scripts build")
                    @@ ("test" :> "react-scripts test")]

VueConfig ==
    [devCommand |-> "npm run serve",
     directories |-> << <<"src">>, <<"public">> >>,
     mainFiles |-> << <<"src", "App.vue">>, <<"src", "main.js">> >>,
     configFiles |-> << <<"vue.config.js">> >>,
     dependencies |-> ("vue" :> "^3.0.0"),
     scripts |-> ("serve" :> "vue-cli-service serve") @@ ("build" :> "vue-cli-service build")]

ViteConfig ==
    [devCommand |-> "npm run dev",
     directories |-> << <<"src">>, <<"public">> >>,
     mainFiles |-> << <<"src", "main.js">>, <<"src", "main.ts">>, <<"index.html">> >>,
     configFiles |-> << <<"vite.config.js">>, <<"vite.config.ts">> >>,
     dependencies |-> ("vite" :> "^5.0.0"),
     scripts |-> ("dev" :> "vite") @@ ("build" :> "vite build") @@ ("preview" :> "vite preview")]

ExpressConfig ==
    [devCommand |-> "npm run dev",
     directories |-> << <<"routes">>, <<"public">>, <<"views">> >>,
     mainFiles |-> << <<"app.js">>, <<"server.js">>, <<"index.js">> >>,
     configFiles |-> << >>,
     dependencies |-> ("express" :> "^4.18.0"),
     scripts |-> ("start" :> "node app.js") @@ ("dev" :> "nodemon app.js")]

\* configs[projectType] || configs.node
getProjectConfig(projectType) ==
    CASE projectType = "astro" -> AstroConfig
      [] projectType = "next" -> NextConfig
      [] projectType = "react" -> ReactConfig
      [] projectType = "vue" -> VueConfig
      [] projectType = "vite" -> ViteConfig
      [] projectType = "express" -> ExpressConfig
      [] OTHER -> NodeConfig

\* the config-file and directory checks that follow the dependency checks
DetectFromFiles(files) ==
    LET configFiles == SeqToSet(files)
    IN  IF "astro.config.mjs" \in configFiles \/ "astro.config.js" \in configFiles THEN "astro"
        ELSE IF "next.config.js" \in configFiles \/ "next.config.mjs" \in configFiles THEN "next"
        ELSE IF "nuxt.config.js" \in configFiles \/ "nuxt.config.ts" \in configFiles THEN "nuxt"
        ELSE IF "vue.config.js" \in configFiles THEN "vue"
        ELSE IF "angular.json" \in configFiles THEN "angular"
        ELSE IF "svelte.config.js" \in configFiles THEN "svelte"
        ELSE IF "vite.config.js" \in configFiles \/ "vite.config.ts" \in configFiles THEN "vite"
        ELSE IF "src/pages" \in configFiles THEN "astro"
        ELSE "node"

\* detection as it would be without the nuxt and create-react-app entries
detectProjectTypeShortList(packageJson, files) ==
    LET deps == IF packageJson.kind = "json"
                THEN Spread(ObjField(packageJson.json, "dependencies"),
                            ObjField(packageJson.json, "devDependencies"))
                ELSE EmptyObj
        hits == {i \in 1..10 :
                    Truthy(deps, <<"astro", "next", "react", "vue", "angular", "svelte",
                                   "express", "fastify", "koa", "vite">>[i])}
    IN  IF hits = {} THEN DetectFromFiles(files)
        ELSE <<"astro", "next", "react", "vue", "angular", "svelte", "express", "fastify",
               "koa", "vite">>[CHOOSE i \in hits : \A j \in hits : i <= j]

\* ProjectTypeHelper.detectProjectType(packageJson, files = []); packageJson is
\* a content record, kind "json" when there is a parsed manifest
detectProjectType(packageJson, files) ==
    LET deps == IF packageJson.kind = "json"
                THEN Spread(ObjField(packageJson.json, "dependencies"),
                            ObjField(packageJson.json, "devDependencies"))
                ELSE EmptyObj
    IN  IF packageJson.kind = "json" /\ Truthy(deps, "astro") THEN "astro"
        ELSE IF packageJson.kind = "json" /\ Truthy(deps, "next") THEN "next"
        ELSE IF packageJson.kind = "json" /\ Truthy(deps, "nuxt") THEN "nuxt"
        ELSE IF packageJson.kind = "json" /\ Truthy(deps, "react") /\ Truthy(deps, "react-scripts")
             THEN "create-react-app"
        ELSE IF packageJson.kind = "json" /\ Truthy(deps, "react") THEN "react"
        ELSE IF packageJson.kind = "json" /\ Truthy(deps, "vue") THEN "vue"
        ELSE IF packageJson.kind = "json" /\ Truthy(deps, "angular") THEN "angular"
        ELSE IF packageJson.kind = "json" /\ Truthy(deps, "svelte") THEN "svelte"
        ELSE IF packageJson.kind = "json" /\ Truthy(deps, "express") THEN "express"
        ELSE IF packageJson.kind = "json" /\ Truthy(deps, "fastify") THEN "fastify"
        ELSE IF packageJson.kind = "json" /\ Truthy(deps, "koa") THEN "koa"
        ELSE IF packageJson.kind = "json" /\ Truthy(deps, "vite") THEN "vite"
        ELSE DetectFromFiles(files)

\* createProjectFromRepository: 'node' unless the fetched package.json parses,
\* and then what detectProjectType(packageJson) says
ImportedProjectType(content) ==
    IF content.kind = "json" THEN detectProjectType(content, << >>) ELSE "node"

\* script.includes(word) for the scripts of the manifests considered
ScriptIncludes(script, word) ==
    \/ script = "astro dev" /\ word = "astro"
    \/ script = "next dev" /\ word = "next"
    \/ script = "vite" /\ word = "vite"

\* ProjectDetector.detectProjectType(packageJsonContent)
ProjectDetector_detectProjectType(content) ==
    IF content.kind # "json" THEN "unknown"
    ELSE LET dependencies == Spread(ObjField(content.json, "dependencies"),
                                    ObjField(content.json, "devDependencies"))
             scripts == ObjField(content.json, "scripts")
         IN  IF Truthy(dependencies, "astro") THEN "astro"
             ELSE IF Truthy(dependencies, "next") THEN "next"
             ELSE IF Truthy(dependencies, "react") THEN "react"
             ELSE IF Truthy(dependencies, "vue") THEN "vue"
             ELSE IF Truthy(dependencies, "angular") THEN "angular"
             ELSE IF Truthy(dependencies, "svelte") THEN "svelte"
             ELSE IF Truthy(dependencies, "express") THEN "express"
             ELSE IF Truthy(dependencies, "fastify") THEN "fastify"
             ELSE IF Truthy(dependencies, "koa") THEN "koa"
             ELSE IF Truthy(dependencies, "vite") THEN "vite"
             ELSE IF Truthy(scripts, "dev") /\ ScriptIncludes(scripts["dev"], "astro") THEN "astro"
             ELSE IF Truthy(scripts, "dev") /\ ScriptIncludes(scripts["dev"], "next") THEN "next"
             ELSE IF Truthy(scripts, "dev") /\ ScriptIncludes(scripts["dev"], "vite") THEN "vite"
             ELSE "node"

(***************************************************************************)
(* The state                                                               *)
(***************************************************************************)
VARIABLES
    impl,            \* which entry point the page runs: "modular" or "consolidated"
    net,             \* the network condition of the session
    remoteManifest,  \* the package.json of the remote repositories
    remoteFiles,     \* the other paths the remote repositories hold
    url,             \* per load operation: the URL given
    ctl,             \* per load operation: where it stands (pc, loop indexes, pending write)
    repoData,        \* per load operation: repository metadata
    pkgContent,      \* per load operation: fetched package.json content
    projectType,     \* per load operation: detected project type
    reqCount,        \* per load operation: requests issued, per (source, path)
    written,         \* per load operation: the paths it wrote or created
    fs,              \* virtual filesystem: path -> content
    dirs             \* virtual filesystem: directories

importVars == <<impl, net, remoteManifest, remoteFiles, url, ctl, repoData, pkgContent,
                projectType, reqCount, written, fs, dirs>>

\* the two load operations of the concurrent-load scenario
Ops == {"A", "B"}

MaxRemoteFiles == 2

PackageJsonPath == <<"package.json">>
ReadmePath == <<"README.md">>
IndexJsPath == <<"index.js">>
AstroIndexPath == <<"src", "pages", "index.astro">>
AstroLayoutPath == <<"src", "layouts", "Layout.astro">>
AstroConfigPath == <<"astro.config.mjs">>

RemoteFilePaths == {ReadmePath, IndexJsPath, AstroIndexPath, AstroConfigPath}

NetModes == {"down", "main", "master", "apiOnly", "rateLimited", "proxyOnly"}

\* which request kinds get a 2xx answer under a network condition
SourceUp(mode, kind) ==
    CASE mode = "main" -> kind \in {"info", "rawMain", "api"}
      [] mode = "master" -> kind \in {"info", "rawMaster", "api"}
      [] mode = "apiOnly" -> kind \in {"info", "api"}
      [] mode = "rateLimited" -> kind \in {"rawMain"}
      [] mode = "proxyOnly" -> kind \in {"proxy1", "proxy2", "proxy3", "rawMain"}
      [] OTHER -> FALSE

\* the repositories that exist on GitHub
RealRepo(owner, repo) == owner = "acme" /\ repo \in {"widgets", "gadgets"}

\* response.ok of a request for `path` of owner/repo through source `kind`
Responds(kind, owner, repo, path) ==
    /\ RealRepo(owner, repo)
    /\ SourceUp(net, kind)
    /\ \/ kind \in {"info", "proxy1", "proxy2", "proxy3"}
       \/ path = PackageJsonPath /\ remoteManifest.kind # "none"
       \/ path \in remoteFiles

RemoteContent(owner, repo, path) ==
    IF path = PackageJsonPath THEN remoteManifest
    ELSE Content("remote", owner, repo, EmptyObj)

NoRepoData ==
    [source |-> "none", name |-> "", owner |-> "", description |-> <<>>, license |-> "",
     default_branch |-> ""]

\* GitHubApiHelper.createFallbackRepoData
createFallbackRepoData(owner, repo) ==
    [source |-> "fallback", name |-> repo, owner |-> owner,
     description |-> <<"Repository ", owner, "/", repo>>, license |-> "",
     default_branch |-> "main"]

\* what the repository-info endpoint answers
RemoteRepoData(owner, repo) ==
    [source |-> "remote", name |-> repo, owner |-> owner,
     description |-> <<"A widget library">>, license |-> "MIT",
     default_branch |-> IF net = "master" THEN "master" ELSE "main"]

\* fetchRepositoryInfo's attempts: the API, then the CORS proxies
InfoAttempts == <<"info", "proxy1", "proxy2", "proxy3">>

\* fetchFileContent's attempts: generateGitHubRawUrls (main, master), then the contents API
FileAttempts == <<"rawMain", "rawMaster", "api">>

BaseFilesToFetch ==
    << <<"README.md">>, <<"LICENSE">>, <<".gitignore">>, <<"index.js">>, <<"app.js">>,
       <<"server.js">>, <<"src", "index.js">>, <<"src", "app.js">>, <<"src", "main.js">>,
       <<"src", "main.ts">>, <<"tsconfig.json">>, <<"vite.config.js">>, <<"vite.config.ts">> >>

AstroFilesToFetch ==
    << AstroIndexPath, AstroLayoutPath, AstroConfigPath, <<"astro.config.js">> >>

\* createProjectFiles: the list of files to try to fetch
filesToFetch(type) ==
    BaseFilesToFetch \o getProjectConfig(type).configFiles \o getProjectConfig(type).mainFiles
        \o (IF type = "astro" THEN AstroFilesToFetch ELSE << >>)

\* checkMainFileExists: the list of main files
mainFiles(type) ==
    << <<"index.js">>, <<"app.js">>, <<"server.js">>, <<"src", "index.js">>, <<"src", "app.js">> >>
        \o getProjectConfig(type).mainFiles

\* createAstroFiles: the directories it creates
astroDirectories ==
    << <<"src">>, <<"src", "pages">>, <<"src", "components">>, <<"src", "layouts">>, <<"public">> >>

Parsed(o) == IF impl = "modular" THEN parseGitHubUrl(url[o]) ELSE ConsolidatedParse(url[o])
Owner(o) == Parsed(o).owner
Repo(o) == Parsed(o).repo

\* `${repo}/${filepath}`, normalized
RepoPath(o, filepath) == normalizePath(<<Repo(o)>> \o filepath)

\* createEnhancedPackageJson with the sub-object spreads the other way round:
\* the template's scripts, dependencies and devDependencies win over the remote ones
createEnhancedPackageJsonDefaultsWin(repo, owner, data, existing, type) ==
    LET config == getProjectConfig(type)
        baseScripts ==
            Spread(("start" :> "node index.js") @@ ("dev" :> "node index.js")
                     @@ ("build" :> "echo 'No build script specified'")
                     @@ ("test" :> "echo \"Error: no test specified\" && exit 1"),
                   config.scripts)
        basePackageJson ==
            ("name" :> repo) @@ ("version" :> "1.0.0") @@ ("main" :> "index.js")
              @@ ("description" :> IF data.description # <<>> THEN data.description
                                   ELSE <<"Project loaded from ", owner, "/", repo>>)
              @@ ("scripts" :> baseScripts) @@ ("author" :> owner)
              @@ ("license" :> IF data.license # "" THEN data.license ELSE "ISC")
              @@ ("dependencies" :> config.dependencies) @@ ("devDependencies" :> EmptyObj)
    IN  IF existing.kind = "json"
        THEN (("scripts" :> Spread(ObjField(existing.json, "scripts"), basePackageJson["scripts"]))
               @@ ("dependencies" :> Spread(ObjField(existing.json, "dependencies"),
                                            basePackageJson["dependencies"]))
               @@ ("devDependencies" :> Spread(ObjField(existing.json, "devDependencies"),
                                               basePackageJson["devDependencies"])))
             @@ Spread(basePackageJson, existing.json)
        ELSE basePackageJson

\* createEnhancedPackageJson(repo, owner, repoData, existingPackageJson, projectType)
createEnhancedPackageJson(repo, owner, data, existing, type) ==
    LET config == getProjectConfig(type)
        baseScripts ==
            Spread(("start" :> "node index.js") @@ ("dev" :> "node index.js")
                     @@ ("build" :> "echo 'No build script specified'")
                     @@ ("test" :> "echo \"Error: no test specified\" && exit 1"),
                   config.scripts)
        basePackageJson ==
            ("name" :> repo) @@ ("version" :> "1.0.0") @@ ("main" :> "index.js")
              @@ ("description" :> IF data.description # <<>> THEN data.description
                                   ELSE <<"Project loaded from ", owner, "/", repo>>)
              @@ ("scripts" :> baseScripts) @@ ("author" :> owner)
              @@ ("license" :> IF data.license # "" THEN data.license ELSE "ISC")
              @@ ("dependencies" :> config.dependencies) @@ ("devDependencies" :> EmptyObj)
    IN  IF existing.kind = "json"
        THEN (("scripts" :> Spread(basePackageJson["scripts"], ObjField(existing.json, "scripts")))
               @@ ("dependencies" :> Spread(basePackageJson["dependencies"],
                                            ObjField(existing.json, "dependencies")))
               @@ ("devDependencies" :> Spread(basePackageJson["devDependencies"],
                                               ObjField(existing.json, "devDependencies"))))
             @@ Spread(basePackageJson, existing.json)
        ELSE basePackageJson

CountRequest(counts, req) ==
    [q \in DOMAIN counts \cup {req} |->
        IF q = req THEN (IF q \in DOMAIN counts THEN counts[q] + 1 ELSE 1) ELSE counts[q]]

IdleCtl ==
    [pc |-> "idle", result |-> "none", idx |-> 0, attempt |-> 0, infoTry |-> 0,
     cont |-> "", wpath |-> <<>>, held |-> NoContent]

(***************************************************************************)
(* GitHubRepository (modular importer): one action per await-delimited     *)
(* step.  The helpers below give the control state an operation moves to.  *)
(***************************************************************************)
Fail(r) == [r EXCEPT !.pc = "done", !.result = "error"]

Finish(r) == [r EXCEPT !.pc = "done", !.result = "ok"]

\* createFallbackFiles begins: fileExists(`${repo}/README.md`)
BeginFallback(r) == [r EXCEPT !.pc = "readmeExists", !.idx = 0, !.attempt = 0]

\* the for loop of createProjectFiles moves to the next file, or ends
NextFile(r, type) ==
    IF r.idx < Len(filesToFetch(type))
    THEN [r EXCEPT !.pc = "fetchFile", !.idx = @ + 1, !.attempt = 1]
    ELSE BeginFallback(r)

\* an exception inside a write: caught in the file loop, fatal elsewhere
Thrown(r, cont, type) == IF cont = "files" THEN NextFile(r, type) ELSE Fail(r)

\* writeFile that issues fs.writeFile without making the parent directory
BeginWriteNoMkdir(r, path, content, cont, type) ==
    IF ~isValidPath(path) THEN Thrown(r, cont, type)
    ELSE [r EXCEPT !.pc = "writeFile", !.wpath = path, !.held = content, !.cont = cont]

\* WebContainerManager.writeFile up to its first await: validate, then mkdir of
\* the parent directory (when there is one) before fs.writeFile
BeginWrite(r, path, content, cont, type) ==
    IF ~isValidPath(path) THEN Thrown(r, cont, type)
    ELSE [r EXCEPT !.pc = IF Len(path) > 1 THEN "writeMkdir" ELSE "writeFile",
                   !.wpath = path, !.held = content, !.cont = cont]

\* createProjectDirectories begins (every config has directories)
BeginDirectories(r) == [r EXCEPT !.pc = "projectDirs", !.idx = 1]

\* what follows a completed write
AfterWrite(r, o) ==
    CASE r.cont = "package" ->
            [r EXCEPT !.pc = "fetchFile", !.idx = 1, !.attempt = 1]
      [] r.cont = "files" -> NextFile(r, projectType[o])
      [] r.cont = "readme" -> [r EXCEPT !.pc = "mainExists", !.idx = 1]
      [] r.cont = "index" -> BeginDirectories(r)
      [] r.cont = "astroIndex" ->
            BeginWrite(r, RepoPath(o, AstroLayoutPath),
                       Content("astroLayout", Owner(o), Repo(o), EmptyObj),
                       "astroLayout", projectType[o])
      [] r.cont = "astroLayout" -> [r EXCEPT !.pc = "astroConfigExists"]
      [] r.cont = "call" -> Finish(r)
      [] OTHER -> BeginDirectories(r)

SetCtl(o, r) == ctl' = [ctl EXCEPT ![o] = r]

Wrote(o, path) == written' = [written EXCEPT ![o] = @ \cup {path}]

\* loadRepository: parse, then start both fetches of the Promise.all
LoadRepository(o) ==
    /\ impl = "modular"
    /\ ctl[o].pc = "start"
    /\ IF ~parseGitHubUrl(url[o]).ok
       THEN SetCtl(o, [ctl[o] EXCEPT !.pc = "done", !.result = "InvalidUrl"])
       ELSE SetCtl(o, [ctl[o] EXCEPT !.pc = "fetching", !.infoTry = 1, !.attempt = 1])
    /\ UNCHANGED <<impl, net, remoteManifest, remoteFiles, url, repoData, pkgContent,
                   projectType, reqCount, written, fs, dirs>>

\* fetchRepositoryInfo: one attempt of its loop
FetchRepositoryInfo(o) ==
    /\ impl = "modular"
    /\ ctl[o].pc = "fetching"
    /\ ctl[o].infoTry \in 1..Len(InfoAttempts)
    /\ LET kind == InfoAttempts[ctl[o].infoTry]
           ok == Responds(kind, Owner(o), Repo(o), <<>>)
       IN  /\ reqCount' = [reqCount EXCEPT ![o] = CountRequest(@, <<kind, <<>>>>)]
           /\ IF ok
              THEN /\ repoData' = [repoData EXCEPT ![o] = RemoteRepoData(Owner(o), Repo(o))]
                   /\ SetCtl(o, [ctl[o] EXCEPT !.infoTry = 0])
              ELSE IF ctl[o].infoTry = Len(InfoAttempts)
              THEN /\ repoData' = [repoData EXCEPT ![o] = createFallbackRepoData(Owner(o), Repo(o))]
                   /\ SetCtl(o, [ctl[o] EXCEPT !.infoTry = 0])
              ELSE /\ repoData' = repoData
                   /\ SetCtl(o, [ctl[o] EXCEPT !.infoTry = @ + 1])
    /\ UNCHANGED <<impl, net, remoteManifest, remoteFiles, url, pkgContent, projectType,
                   written, fs, dirs>>

\* fetchFileContent(owner, repo, 'package.json'): one attempt of its loop
FetchPackageJson(o) ==
    /\ impl = "modular"
    /\ ctl[o].pc = "fetching"
    /\ ctl[o].attempt \in 1..Len(FileAttempts)
    /\ LET kind == FileAttempts[ctl[o].attempt]
           ok == Responds(kind, Owner(o), Repo(o), PackageJsonPath)
       IN  /\ reqCount' = [reqCount EXCEPT ![o] = CountRequest(@, <<kind, PackageJsonPath>>)]
           /\ IF ok
              THEN /\ pkgContent' = [pkgContent EXCEPT ![o] =
                                        RemoteContent(Owner(o), Repo(o), PackageJsonPath)]
                   /\ SetCtl(o, [ctl[o] EXCEPT !.attempt = 0])
              ELSE IF ctl[o].attempt = Len(FileAttempts)
              THEN /\ pkgContent' = [pkgContent EXCEPT ![o] = NoContent]
                   /\ SetCtl(o, [ctl[o] EXCEPT !.attempt = 0])
              ELSE /\ pkgContent' = pkgContent
                   /\ SetCtl(o, [ctl[o] EXCEPT !.attempt = @ + 1])
    /\ UNCHANGED <<impl, net, remoteManifest, remoteFiles, url, repoData, projectType,
                   written, fs, dirs>>

\* createProjectFromRepository begins once both fetches are in: mkdir(repo)
\* validates the path and awaits fs.mkdir
CreateProjectFromRepository(o) ==
    /\ impl = "modular"
    /\ ctl[o].pc = "fetching"
    /\ ctl[o].infoTry = 0
    /\ ctl[o].attempt = 0
    /\ IF isValidPath(RepoPath(o, <<>>))
       THEN SetCtl(o, [ctl[o] EXCEPT !.pc = "mkProjectDir"])
       ELSE SetCtl(o, Fail(ctl[o]))
    /\ UNCHANGED <<impl, net, remoteManifest, remoteFiles, url, repoData, pkgContent,
                   projectType, reqCount, written, fs, dirs>>

\* fs.mkdir of the project directory completes; the manifest is parsed, the type
\* detected, the enhanced package.json built and its write begun
MkProjectDir(o) ==
    /\ impl = "modular"
    /\ ctl[o].pc = "mkProjectDir"
    /\ LET path == RepoPath(o, <<>>)
           type == ImportedProjectType(pkgContent[o])
           final == createEnhancedPackageJson(Repo(o), Owner(o), repoData[o], pkgContent[o], type)
       IN  IF FsMkdirOk(fs, path)
           THEN /\ dirs' = dirs \cup Ancestors(path)
                /\ Wrote(o, path)
                /\ projectType' = [projectType EXCEPT ![o] = type]
                /\ SetCtl(o, BeginWrite(ctl[o], RepoPath(o, PackageJsonPath),
                                        Content("manifest", Owner(o), Repo(o), final),
                                        "package", type))
           ELSE /\ SetCtl(o, Fail(ctl[o]))
                /\ UNCHANGED <<dirs, written, projectType>>
    /\ UNCHANGED <<impl, net, remoteManifest, remoteFiles, url, repoData, pkgContent,
                   reqCount, fs>>

\* WebContainerManager.writeFile: the mkdir of the parent directory completes
WriteFileMkdir(o) ==
    /\ impl = "modular"
    /\ ctl[o].pc = "writeMkdir"
    /\ LET parent == Parent(ctl[o].wpath)
       IN  IF FsMkdirOk(fs, parent)
           THEN /\ dirs' = dirs \cup Ancestors(parent)
                /\ Wrote(o, parent)
                /\ SetCtl(o, [ctl[o] EXCEPT !.pc = "writeFile"])
           ELSE /\ SetCtl(o, Thrown(ctl[o], ctl[o].cont, projectType[o]))
                /\ UNCHANGED <<dirs, written>>
    /\ UNCHANGED <<impl, net, remoteManifest, remoteFiles, url, repoData, pkgContent,
                   projectType, reqCount, fs>>

\* WebContainerManager.writeFile: fs.writeFile completes
WriteFileWrite(o) ==
    /\ impl = "modular"
    /\ ctl[o].pc = "writeFile"
    /\ IF FsWriteOk(fs, dirs, ctl[o].wpath)
       THEN /\ fs' = FsWrite(fs, ctl[o].wpath, ctl[o].held)
            /\ Wrote(o, ctl[o].wpath)
            /\ SetCtl(o, AfterWrite(ctl[o], o))
       ELSE /\ SetCtl(o, Thrown(ctl[o], ctl[o].cont, projectType[o]))
            /\ UNCHANGED <<fs, written>>
    /\ UNCHANGED <<impl, net, remoteManifest, remoteFiles, url, repoData, pkgContent,
                   projectType, reqCount, dirs>>

\* createProjectFiles: one attempt of fetchFileContent for the current file of
\* the loop; on success the file's directory is made (nested paths) or its
\* write begun
FetchProjectFile(o) ==
    /\ impl = "modular"
    /\ ctl[o].pc = "fetchFile"
    /\ LET filepath == filesToFetch(projectType[o])[ctl[o].idx]
           kind == FileAttempts[ctl[o].attempt]
           ok == Responds(kind, Owner(o), Repo(o), filepath)
           content == RemoteContent(Owner(o), Repo(o), filepath)
       IN  /\ reqCount' = [reqCount EXCEPT ![o] = CountRequest(@, <<kind, filepath>>)]
           /\ IF ok
              THEN IF Len(filepath) > 1
                   THEN IF isValidPath(RepoPath(o, Parent(filepath)))
                        THEN SetCtl(o, [ctl[o] EXCEPT !.pc = "fileMkdir", !.held = content,
                                                      !.attempt = 0])
                        ELSE SetCtl(o, NextFile(ctl[o], projectType[o]))
                   ELSE SetCtl(o, BeginWrite([ctl[o] EXCEPT !.attempt = 0],
                                             RepoPath(o, filepath), content, "files",
                                             projectType[o]))
              ELSE IF ctl[o].attempt = Len(FileAttempts)
              THEN SetCtl(o, NextFile(ctl[o], projectType[o]))
              ELSE SetCtl(o, [ctl[o] EXCEPT !.attempt = @ + 1])
    /\ UNCHANGED <<impl, net, remoteManifest, remoteFiles, url, repoData, pkgContent,
                   projectType, written, fs, dirs>>

\* createProjectFiles: mkdir(`${repo}/${dirPath}`) completes, the write begins
FileMkdir(o) ==
    /\ impl = "modular"
    /\ ctl[o].pc = "fileMkdir"
    /\ LET filepath == filesToFetch(projectType[o])[ctl[o].idx]
           dirPath == RepoPath(o, Parent(filepath))
       IN  IF FsMkdirOk(fs, dirPath)
           THEN /\ dirs' = dirs \cup Ancestors(dirPath)
                /\ Wrote(o, dirPath)
                /\ SetCtl(o, BeginWrite(ctl[o], RepoPath(o, filepath), ctl[o].held, "files",
                                        projectType[o]))
           ELSE /\ SetCtl(o, NextFile(ctl[o], projectType[o]))
                /\ UNCHANGED <<dirs, written>>
    /\ UNCHANGED <<impl, net, remoteManifest, remoteFiles, url, repoData, pkgContent,
                   projectType, reqCount, fs>>

\* createFallbackFiles: fileExists(`${repo}/README.md`), then the fallback README
ReadmeExists(o) ==
    /\ impl = "modular"
    /\ ctl[o].pc = "readmeExists"
    /\ IF FsExists(fs, dirs, RepoPath(o, ReadmePath))
       THEN SetCtl(o, [ctl[o] EXCEPT !.pc = "mainExists", !.idx = 1])
       ELSE SetCtl(o, BeginWrite(ctl[o], RepoPath(o, ReadmePath),
                                 Content("readme", Owner(o), Repo(o), EmptyObj), "readme",
                                 projectType[o]))
    /\ UNCHANGED <<impl, net, remoteManifest, remoteFiles, url, repoData, pkgContent,
                   projectType, reqCount, written, fs, dirs>>

\* checkMainFileExists: one fileExists of its loop; when none exists the
\* fallback main file (or the Astro starter) is begun
MainFileExists(o) ==
    /\ impl = "modular"
    /\ ctl[o].pc = "mainExists"
    /\ LET files == mainFiles(projectType[o])
       IN  IF FsExists(fs, dirs, RepoPath(o, files[ctl[o].idx]))
           THEN SetCtl(o, BeginDirectories(ctl[o]))
           ELSE IF ctl[o].idx < Len(files)
           THEN SetCtl(o, [ctl[o] EXCEPT !.idx = @ + 1])
           ELSE IF projectType[o] = "astro"
           THEN SetCtl(o, [ctl[o] EXCEPT !.pc = "astroMkdir", !.idx = 1])
           ELSE SetCtl(o, BeginWrite(ctl[o], RepoPath(o, IndexJsPath),
                                     Content("index", Owner(o), Repo(o), EmptyObj), "index",
                                     projectType[o]))
    /\ UNCHANGED <<impl, net, remoteManifest, remoteFiles, url, repoData, pkgContent,
                   projectType, reqCount, written, fs, dirs>>

\* createAstroFiles: one mkdir of its directory loop, then the index page
AstroMkdir(o) ==
    /\ impl = "modular"
    /\ ctl[o].pc = "astroMkdir"
    /\ LET dir == RepoPath(o, astroDirectories[ctl[o].idx])
       IN  IF FsMkdirOk(fs, dir)
           THEN /\ dirs' = dirs \cup Ancestors(dir)
                /\ Wrote(o, dir)
                /\ IF ctl[o].idx < Len(astroDirectories)
                   THEN SetCtl(o, [ctl[o] EXCEPT !.idx = @ + 1])
                   ELSE SetCtl(o, BeginWrite(ctl[o], RepoPath(o, AstroIndexPath),
                                             Content("astroIndex", Owner(o), Repo(o), EmptyObj),
                                             "astroIndex", projectType[o]))
           ELSE /\ SetCtl(o, Fail(ctl[o]))
                /\ UNCHANGED <<dirs, written>>
    /\ UNCHANGED <<impl, net, remoteManifest, remoteFiles, url, repoData, pkgContent,
                   projectType, reqCount, fs>>

\* createAstroFiles: fileExists(`${repo}/astro.config.mjs`), then the config
AstroConfigExists(o) ==
    /\ impl = "modular"
    /\ ctl[o].pc = "astroConfigExists"
    /\ IF FsExists(fs, dirs, RepoPath(o, AstroConfigPath))
       THEN SetCtl(o, BeginDirectories(ctl[o]))
       ELSE SetCtl(o, BeginWrite(ctl[o], RepoPath(o, AstroConfigPath),
                                 Content("astroConfig", Owner(o), Repo(o), EmptyObj),
                                 "astroConfig", projectType[o]))
    /\ UNCHANGED <<impl, net, remoteManifest, remoteFiles, url, repoData, pkgContent,
                   projectType, reqCount, written, fs, dirs>>

\* createProjectDirectories: one mkdir of its loop (failures are swallowed);
\* after the last one loadRepository returns
CreateProjectDirectories(o) ==
    /\ impl = "modular"
    /\ ctl[o].pc = "projectDirs"
    /\ LET directories == getProjectConfig(projectType[o]).directories
           dir == RepoPath(o, directories[ctl[o].idx])
       IN  /\ IF isValidPath(dir) /\ FsMkdirOk(fs, dir)
              THEN dirs' = dirs \cup Ancestors(dir) /\ Wrote(o, dir)
              ELSE UNCHANGED <<dirs, written>>
           /\ IF ctl[o].idx < Len(directories)
              THEN SetCtl(o, [ctl[o] EXCEPT !.idx = @ + 1])
              ELSE SetCtl(o, Finish(ctl[o]))
    /\ UNCHANGED <<impl, net, remoteManifest, remoteFiles, url, repoData, pkgContent,
                   projectType, reqCount, fs>>

(***************************************************************************)
(* main-consolidated.js loadGitHubRepository                               *)
(***************************************************************************)
\* the enhancedPackageJson object literal
ConsolidatedPackageJson(repo, owner, data, existing) ==
    LET pkg == IF existing.kind = "json" THEN existing.json ELSE EmptyObj
    IN  ("name" :> repo)
          @@ ("version" :> IF Truthy(pkg, "version") THEN pkg["version"] ELSE "1.0.0")
          @@ ("description" :> IF data.description # <<>> THEN data.description
                               ELSE <<"Project loaded from ", owner, "/", repo>>)
          @@ ("main" :> IF Truthy(pkg, "main") THEN pkg["main"] ELSE "index.js")
          @@ ("scripts" :> Spread(("start" :> "node index.js") @@ ("dev" :> "node index.js")
                                    @@ ("build" :> "echo 'No build script specified'")
                                    @@ ("test" :> "echo \"Error: no test specified\" && exit 1"),
                                  ObjField(pkg, "scripts")))
          @@ ("author" :> owner)
          @@ ("license" :> IF data.license # "" THEN data.license
                           ELSE IF Truthy(pkg, "license") THEN pkg["license"] ELSE "ISC")
          @@ ("dependencies" :> ObjField(pkg, "dependencies"))
          @@ ("devDependencies" :> ObjField(pkg, "devDependencies"))

\* the parse step: fewer than two parts throws 'Invalid GitHub URL format'
ConsolidatedStart(o) ==
    /\ impl = "consolidated"
    /\ ctl[o].pc = "start"
    /\ IF ~ConsolidatedParse(url[o]).ok
       THEN SetCtl(o, [ctl[o] EXCEPT !.pc = "done", !.result = "InvalidUrl"])
       ELSE SetCtl(o, [ctl[o] EXCEPT !.pc = "cFetchInfo"])
    /\ UNCHANGED <<impl, net, remoteManifest, remoteFiles, url, repoData, pkgContent,
                   projectType, reqCount, written, fs, dirs>>

\* fetch of api.github.com/repos/owner/repo: a failed fetch or a non-2xx
\* answer throws, and the outer catch rethrows
ConsolidatedFetchInfo(o) ==
    /\ impl = "consolidated"
    /\ ctl[o].pc = "cFetchInfo"
    /\ reqCount' = [reqCount EXCEPT ![o] = CountRequest(@, <<"info", <<>>>>)]
    /\ IF Responds("info", Owner(o), Repo(o), <<>>)
       THEN /\ repoData' = [repoData EXCEPT ![o] = RemoteRepoData(Owner(o), Repo(o))]
            /\ SetCtl(o, [ctl[o] EXCEPT !.pc = "cFetchPackage"])
       ELSE /\ repoData' = repoData
            /\ SetCtl(o, [ctl[o] EXCEPT !.pc = "done", !.result = "RepoNotFound"])
    /\ UNCHANGED <<impl, net, remoteManifest, remoteFiles, url, pkgContent, projectType,
                   written, fs, dirs>>

\* fetch of the raw main package.json inside its own try/catch; a body that is
\* not JSON throws in response.json() and leaves packageJsonContent null
ConsolidatedFetchPackage(o) ==
    /\ impl = "consolidated"
    /\ ctl[o].pc = "cFetchPackage"
    /\ reqCount' = [reqCount EXCEPT ![o] = CountRequest(@, <<"rawMain", PackageJsonPath>>)]
    /\ pkgContent' = [pkgContent EXCEPT ![o] =
           IF Responds("rawMain", Owner(o), Repo(o), PackageJsonPath)
              /\ remoteManifest.kind = "json"
           THEN remoteManifest ELSE NoContent]
    /\ SetCtl(o, [ctl[o] EXCEPT !.pc = "cMkdir"])
    /\ UNCHANGED <<impl, net, remoteManifest, remoteFiles, url, repoData, projectType,
                   written, fs, dirs>>

\* fs.mkdir(`/${repo}`, {recursive: true})
ConsolidatedMkdir(o) ==
    /\ impl = "consolidated"
    /\ ctl[o].pc = "cMkdir"
    /\ LET path == RepoPath(o, <<>>)
       IN  IF FsMkdirOk(fs, path)
           THEN /\ dirs' = dirs \cup Ancestors(path)
                /\ Wrote(o, path)
                /\ SetCtl(o, [ctl[o] EXCEPT !.pc = "cWritePackage"])
           ELSE /\ SetCtl(o, Fail(ctl[o]))
                /\ UNCHANGED <<dirs, written>>
    /\ UNCHANGED <<impl, net, remoteManifest, remoteFiles, url, repoData, pkgContent,
                   projectType, reqCount, fs>>

\* one of the three unconditional fs.writeFile calls
ConsolidatedWrite(o, pc, path, content, next) ==
    /\ impl = "consolidated"
    /\ ctl[o].pc = pc
    /\ IF FsWriteOk(fs, dirs, path)
       THEN /\ fs' = FsWrite(fs, path, content)
            /\ Wrote(o, path)
            /\ SetCtl(o, IF next = "done" THEN Finish(ctl[o]) ELSE [ctl[o] EXCEPT !.pc = next])
       ELSE /\ SetCtl(o, Fail(ctl[o]))
            /\ UNCHANGED <<fs, written>>
    /\ UNCHANGED <<impl, net, remoteManifest, remoteFiles, url, repoData, pkgContent,
                   projectType, reqCount, dirs>>

ConsolidatedWritePackage(o) ==
    ConsolidatedWrite(o, "cWritePackage", RepoPath(o, PackageJsonPath),
                      Content("manifest", Owner(o), Repo(o),
                              ConsolidatedPackageJson(Repo(o), Owner(o), repoData[o],
                                                      pkgContent[o])),
                      "cWriteReadme")

ConsolidatedWriteReadme(o) ==
    ConsolidatedWrite(o, "cWriteReadme", RepoPath(o, ReadmePath),
                      Content("readme", Owner(o), Repo(o), EmptyObj), "cWriteIndex")

ConsolidatedWriteIndex(o) ==
    ConsolidatedWrite(o, "cWriteIndex", RepoPath(o, IndexJsPath),
                      Content("index", Owner(o), Repo(o), EmptyObj), "done")

(***************************************************************************)
(* Specifications of the importer                                          *)
(***************************************************************************)
EnvOk ==
    /\ impl \in {"modular", "consolidated"}
    /\ net \in NetModes
    /\ remoteManifest \in RemoteManifests
    /\ remoteFiles \in {F \in SUBSET RemoteFilePaths : Cardinality(F) <= MaxRemoteFiles}

StartCtl == [IdleCtl EXCEPT !.pc = "start"]

\* one repository load, any URL, any environment
InitImport ==
    /\ EnvOk
    /\ url \in {u \in [Ops -> Urls \cup {NoUrl}] : u["B"] = NoUrl /\ u["A"] # NoUrl}
    /\ ctl = [o \in Ops |-> IF o = "A" THEN StartCtl ELSE IdleCtl]
    /\ repoData = [o \in Ops |-> NoRepoData]
    /\ pkgContent = [o \in Ops |-> NoContent]
    /\ projectType = [o \in Ops |-> "node"]
    /\ reqCount = [o \in Ops |-> << >>]
    /\ written = [o \in Ops |-> {}]
    /\ fs = InitialFiles
    /\ dirs = {}

\* the paths of the files written through WebContainerManager.writeFile
WritePaths == {<<"notes.txt">>, <<"notes", "todo.md">>, <<"widgets", "src", "lib", "util.js">>}

\* a call of WebContainerManager.writeFile from outside an import, up to its
\* first await
WriteFile(o, path) ==
    /\ impl = "modular"
    /\ ctl[o].pc \in {"idle", "done"}
    /\ SetCtl(o, BeginWrite([ctl[o] EXCEPT !.result = "none"], path,
                            Content("user", "", "", EmptyObj), "call", projectType[o]))
    /\ UNCHANGED <<impl, net, remoteManifest, remoteFiles, url, repoData, pkgContent,
                   projectType, reqCount, written, fs, dirs>>

ImportStep(o) ==
    \/ LoadRepository(o)
    \/ FetchRepositoryInfo(o)
    \/ FetchPackageJson(o)
    \/ CreateProjectFromRepository(o)
    \/ MkProjectDir(o)
    \/ WriteFileMkdir(o)
    \/ WriteFileWrite(o)
    \/ FetchProjectFile(o)
    \/ FileMkdir(o)
    \/ ReadmeExists(o)
    \/ MainFileExists(o)
    \/ AstroMkdir(o)
    \/ AstroConfigExists(o)
    \/ CreateProjectDirectories(o)
    \/ ConsolidatedStart(o)
    \/ ConsolidatedFetchInfo(o)
    \/ ConsolidatedFetchPackage(o)
    \/ ConsolidatedMkdir(o)
    \/ ConsolidatedWritePackage(o)
    \/ ConsolidatedWriteReadme(o)
    \/ ConsolidatedWriteIndex(o)

(***************************************************************************)
(* OutputParser: the terminal-output classifier.  A chunk of output is a   *)
(* sequence of tokens separated by blanks, on one line.  A token is a      *)
(* phrase and, for the phrases that carry one, a number given by its       *)
(* decimal digits:                                                         *)
(*   local      "Local: http://localhost:N"                                *)
(*   localhost  "localhost:N"                                              *)
(*   port       "listening on port N"                                      *)
(*   bare       "N"                                                        *)
(*   astroReady "astro ready"      errorWord "error: boom"    word "hello" *)
(***************************************************************************)
MaxChunkTokens == 3

D3000 == <<3, 0, 0, 0>>
D4321 == <<4, 3, 2, 1>>
D9999 == <<9, 9, 9, 9>>
D2999 == <<2, 9, 9, 9>>
D10000 == <<1, 0, 0, 0, 0>>
D13000 == <<1, 3, 0, 0, 0>>
D80 == <<8, 0>>

Numbers == {D3000, D4321, D9999, D2999, D10000, D13000, D80}

NumberKinds == {"local", "localhost", "port", "bare"}

WordKinds == {"astroReady", "errorWord", "word"}

Token(kind, digits) == [kind |-> kind, digits |-> digits]

Tokens == {Token(k, d) : k \in NumberKinds, d \in Numbers} \cup {Token(k, <<>>) : k \in WordKinds}

Chunks == UNION {[1..n -> Tokens] : n \in 0..MaxChunkTokens}

StringOutput(tokens) == [type |-> "string", tokens |-> tokens]

\* what a caller can hand to the classifier: a string, null or undefined
Outputs ==
    {StringOutput(c) : c \in Chunks}
      \cup {[type |-> "null", tokens |-> <<>>], [type |-> "undefined", tokens |-> <<>>]}

\* parseInt of a string of decimal digits
RECURSIVE parseInt(_)
parseInt(digits) ==
    IF digits = <<>> THEN 0
    ELSE 10 * parseInt(SubSeq(digits, 1, Len(digits) - 1)) + digits[Len(digits)]

\* the alternatives of /(4321|3000|3001|5173|8080|8000)/
KnownPorts ==
    {<<4, 3, 2, 1>>, <<3, 0, 0, 0>>, <<3, 0, 0, 1>>, <<5, 1, 7, 3>>, <<8, 0, 8, 0>>,
     <<8, 0, 0, 0>>}

\* the successive matches of the known-port alternation inside a run of digits
RECURSIVE KnownIn(_, _)
KnownIn(digits, i) ==
    IF i + 3 > Len(digits) THEN << >>
    ELSE IF SubSeq(digits, i, i + 3) \in KnownPorts
    THEN <<SubSeq(digits, i, i + 3)>> \o KnownIn(digits, i + 4)
    ELSE KnownIn(digits, i + 1)

\* a match result: found is `match && match[1]`, nan is parseInt giving NaN
NoCapture == [found |-> FALSE, nan |-> FALSE, digits |-> <<>>]

Capture(digits) == [found |-> TRUE, nan |-> FALSE, digits |-> digits]

\* match[1] of a /g pattern is the second whole match, here "localhost:N"
WholeMatch(digits) == [found |-> TRUE, nan |-> TRUE, digits |-> digits]

Positions(c, kinds) == {i \in 1..Len(c) : c[i].kind \in kinds}

Min(S) == CHOOSE x \in S : \A y \in S : x <= y

Max(S) == CHOOSE x \in S : \A y \in S : x >= y

\* /Local:\s*http:\/\/localhost:(\d+)/i : the leftmost match, its group
MatchLocal(c) ==
    LET at == Positions(c, {"local"})
    IN  IF at = {} THEN NoCapture ELSE Capture(c[Min(at)].digits)

\* /localhost:(\d+)(?!\d)/g and /http:\/\/localhost:(\d+)/g : String.match with
\* the g flag returns the whole matches, so index 1 is the second occurrence
MatchGlobal(c, kinds) ==
    LET at == Positions(c, kinds)
    IN  IF Cardinality(at) < 2 THEN NoCapture
        ELSE WholeMatch(c[Min(at \ {Min(at)})].digits)

\* /listening.*port[:\s]+(\d+)/i : the greedy .* runs to the last "port N"
MatchListening(c) ==
    LET at == Positions(c, {"port"})
    IN  IF at = {} THEN NoCapture ELSE Capture(c[Max(at)].digits)

\* /astro.*ready.*(\d+)/i : the greedy .* leaves the group the last digit of
\* the line
MatchAstroReady(c) ==
    LET at == Positions(c, {"astroReady"})
        nums == IF at = {} THEN {}
                ELSE {i \in Positions(c, NumberKinds) : i > Min(at)}
    IN  IF nums = {} THEN NoCapture
        ELSE LET d == c[Max(nums)].digits IN Capture(<<d[Len(d)]>>)

RECURSIVE KnownMatches(_)
KnownMatches(c) ==
    IF c = << >> THEN << >> ELSE KnownIn(Head(c).digits, 1) \o KnownMatches(Tail(c))

\* /(4321|3000|3001|5173|8080|8000)/g : index 1 is the second occurrence
MatchKnown(c) ==
    LET all == KnownMatches(c)
    IN  IF Len(all) < 2 THEN NoCapture ELSE Capture(all[2])

\* serverPatterns, in order, each applied to the chunk.  No token holds the
\* words of patterns 2-4, 8, 9, 11 and 12, which therefore never match.
serverPatterns(c) ==
    << MatchLocal(c), NoCapture, NoCapture, NoCapture,
       MatchGlobal(c, {"local", "localhost"}), MatchGlobal(c, {"local"}),
       MatchListening(c), NoCapture, NoCapture,
       MatchAstroReady(c), NoCapture, NoCapture,
       MatchKnown(c) >>

InDevRange(port) == port >= 3000 /\ port <= 9999

Returned(value) == [status |-> "returned", value |-> value]

Threw == [status |-> "threw", value |-> 0]

Unset == [status |-> "unset", value |-> 0]

\* OutputParser.parseServerPort; the value 0 stands for null
parseServerPort(output) ==
    IF output.type # "string" THEN Threw
    ELSE LET m == serverPatterns(output.tokens)
             hits == {i \in 1..Len(m) :
                         m[i].found /\ ~m[i].nan /\ InDevRange(parseInt(m[i].digits))}
         IN  IF hits = {} THEN Returned(0) ELSE Returned(parseInt(m[Min(hits)].digits))

\* OutputParser.containsReadyMessage; the value is 1 for true, 0 for false
containsReadyMessage(output) ==
    IF output.type # "string" THEN Threw
    ELSE IF Positions(output.tokens, {"astroReady"}) # {} THEN Returned(1) ELSE Returned(0)

\* OutputParser.containsError
containsError(output) ==
    IF output.type # "string" THEN Threw
    ELSE IF Positions(output.tokens, {"errorWord"}) # {} THEN Returned(1) ELSE Returned(0)

VARIABLES
    output,        \* the argument handed to the classifier
    portResult,    \* outcome of parseServerPort(output)
    readyResult,   \* outcome of containsReadyMessage(output)
    errorResult    \* outcome of containsError(output)

classifierVars == <<output, portResult, readyResult, errorResult>>

ParseServerPort ==
    /\ portResult.status = "unset"
    /\ portResult' = parseServerPort(output)
    /\ UNCHANGED <<output, readyResult, errorResult>>

ContainsReadyMessage ==
    /\ readyResult.status = "unset"
    /\ readyResult' = containsReadyMessage(output)
    /\ UNCHANGED <<output, portResult, errorResult>>

ContainsError ==
    /\ errorResult.status = "unset"
    /\ errorResult' = containsError(output)
    /\ UNCHANGED <<output, portResult, readyResult>>

ClassifierIdle ==
    /\ output = StringOutput(<< >>)
    /\ portResult = Unset
    /\ readyResult = Unset
    /\ errorResult = Unset

(***************************************************************************)
(* The session: shell output, the document events and the preview          *)
(***************************************************************************)
MaxTerminalWrites == 3

VARIABLES
    shellChunk,      \* the chunk the shell's output stream delivered last
    terminalWrites,  \* how many chunks were written to the terminal (counted up to MaxTerminalWrites)
    currentURL       \* PreviewManager.currentURL

sessionVars == <<shellChunk, terminalWrites, currentURL>>

\* a URL string by its parts; the scheme "" is a string without a scheme, the
\* port 0 is the text "undefined" where the port should be, and the query is the
\* sequence of its parameters
PreviewUrl(scheme, host, port, query) ==
    [scheme |-> scheme, host |-> host, port |-> port, query |-> query]

\* null, undefined or the empty string
NoPreviewUrl == PreviewUrl("", "", 0, <<>>)

\* `http://localhost:${port}`; port 0 stands for an undefined port
LocalhostUrl(port) == PreviewUrl("http", "localhost", port, <<>>)

\* the chunks a shell emits: nothing, or one phrase
SessionChunks == {<< >>} \cup {<<t>> : t \in Tokens}

\* the ports a document event may carry (0: no port in the detail)
EventPorts == {0, 3000, 4321}

\* what can be typed into the preview's URL field: nothing, two URLs that load,
\* ftp://localhost:3000, javascript:alert(1), a URL whose query carries
\* "javascript:", and text that is no URL
PreviewTargets ==
    {NoPreviewUrl, LocalhostUrl(3000), PreviewUrl("https", "example.com", 443, <<>>),
     PreviewUrl("ftp", "localhost", 3000, <<>>), PreviewUrl("javascript", "", 0, <<>>),
     PreviewUrl("http", "localhost", 3000, <<"next=javascript:x">>),
     PreviewUrl("", "preview", 0, <<>>)}

\* new URL(url) does not throw
Parses(target) ==
    /\ target.scheme # ""
    /\ target.scheme \in {"http", "https", "ftp"} => target.host # "" /\ target.port # 0

\* url.toLowerCase() includes 'data:', 'javascript:' or 'vbscript:'
Suspicious(target) ==
    \/ target.scheme \in {"data", "javascript", "vbscript"}
    \/ "next=javascript:x" \in SeqToSet(target.query)

\* URLHelper.validateIframeURL
validateIframeURL(target) ==
    IF ~Parses(target) THEN [valid |-> FALSE, reason |-> "Invalid URL format."]
    ELSE IF target.scheme \notin {"http", "https"}
    THEN [valid |-> FALSE, reason |-> "Invalid protocol. Only HTTP and HTTPS are allowed."]
    ELSE IF Suspicious(target)
    THEN [valid |-> FALSE, reason |-> "Potentially unsafe URL detected."]
    ELSE [valid |-> TRUE, reason |-> ""]

\* URLHelper.addURLParams: searchParams.set('_t', Date.now())
addURLParams(target) ==
    IF Parses(target) /\ "_t" \notin SeqToSet(target.query)
    THEN [target EXCEPT !.query = Append(@, "_t")]
    ELSE target

(***************************************************************************)
(* PreviewManager's state and the browser's local storage.  Time is        *)
(* counted in hours.                                                       *)
(***************************************************************************)
\* 24 * 60 * 60 * 1000 ms
maxAge == 24

TickHours == 12

MaxClock == 36

VARIABLES
    autoRefreshEnabled,  \* PreviewManager.autoRefreshEnabled
    consoleHidden,       \* the console panel carries the class 'hidden'
    iframe,              \* the URL of the iframe in the frame container, if any
    previewError,        \* the reason on the error overlay, if any
    stored,              \* localStorage: 'preview_current' and 'lastRepository'
    clock,               \* Date.now()
    restoredRepo         \* the repository loadInitialState loaded, and when, if any

previewVars ==
    <<autoRefreshEnabled, consoleHidden, iframe, previewError, stored, clock, restoredRepo>>

NoRestore == [url |-> NoUrl, at |-> 0]

\* the preview manager and the storage, as the methods below see them
World ==
    [currentURL |-> currentURL, autoRefreshEnabled |-> autoRefreshEnabled,
     consoleHidden |-> consoleHidden, iframe |-> iframe, error |-> previewError,
     store |-> stored]

\* the state of a PreviewManager just constructed, over a given storage
Constructed(store) ==
    [currentURL |-> NoPreviewUrl, autoRefreshEnabled |-> FALSE, consoleHidden |-> TRUE,
     iframe |-> NoPreviewUrl, error |-> "", store |-> store]

Become(w) ==
    /\ currentURL' = w.currentURL
    /\ autoRefreshEnabled' = w.autoRefreshEnabled
    /\ consoleHidden' = w.consoleHidden
    /\ iframe' = w.iframe
    /\ previewError' = w.error
    /\ stored' = w.store

\* PreviewManager.saveCurrentState with PreviewStateHelper.saveState
saveCurrentState(w, now) ==
    [w EXCEPT !.store =
        ("preview_current" :>
            [url |-> w.currentURL, autoRefreshEnabled |-> w.autoRefreshEnabled,
             consoleOpen |-> ~w.consoleHidden, timestamp |-> now]) @@ w.store]

\* PreviewManager.showError: the iframe is removed, the overlay shown
showError(w, reason) == [w EXCEPT !.iframe = NoPreviewUrl, !.error = reason]

\* updatePreview that takes the URL over before it validates it
updatePreviewUnchecked(w, target, now) ==
    IF target = NoPreviewUrl THEN w
    ELSE IF ~validateIframeURL(target).valid
    THEN showError(saveCurrentState([w EXCEPT !.currentURL = target], now),
                   validateIframeURL(target).reason)
    ELSE [saveCurrentState([w EXCEPT !.currentURL = target], now) EXCEPT !.iframe = target]

\* PreviewManager.updatePreview: an empty URL is ignored, an invalid one is
\* reported and dropped, a valid one becomes the current URL and is saved
updatePreview(w, target, now) ==
    IF target = NoPreviewUrl THEN w
    ELSE IF ~validateIframeURL(target).valid
    THEN showError(w, validateIframeURL(target).reason)
    ELSE [saveCurrentState([w EXCEPT !.currentURL = target], now) EXCEPT !.iframe = target]

\* PreviewManager.refreshPreview
refreshPreview(w, now) ==
    IF w.currentURL # NoPreviewUrl THEN updatePreview(w, addURLParams(w.currentURL), now)
    ELSE w

\* PreviewManager.toggleAutoRefresh
toggleAutoRefresh(w, now) ==
    saveCurrentState([w EXCEPT !.autoRefreshEnabled = ~w.autoRefreshEnabled], now)

\* PreviewManager.toggleConsole
toggleConsole(w) == [w EXCEPT !.consoleHidden = ~w.consoleHidden]

NoState == [present |-> FALSE, state |-> EmptyObj]

\* PreviewStateHelper.loadState
loadState(store, key, now) ==
    IF key \in DOMAIN store /\ now - store[key].timestamp < maxAge
    THEN [present |-> TRUE, state |-> store[key]]
    ELSE NoState

\* PreviewManager.loadSavedState
loadSavedState(w, now) ==
    LET saved == loadState(w.store, "preview_current", now)
        state == saved.state
        w1 == IF state.url # NoPreviewUrl THEN updatePreview(w, state.url, now) ELSE w
        w2 == IF state.autoRefreshEnabled THEN toggleAutoRefresh(w1, now) ELSE w1
    IN  IF ~saved.present THEN w
        ELSE IF state.consoleOpen THEN [w2 EXCEPT !.consoleHidden = FALSE] ELSE w2

\* TerminalManager.setupShellOutput / startShell: the WritableStream's write
ShellOutput(c) ==
    /\ shellChunk' = StringOutput(c)
    /\ terminalWrites' = IF terminalWrites < MaxTerminalWrites THEN terminalWrites + 1
                         ELSE MaxTerminalWrites
    /\ UNCHANGED currentURL
    /\ UNCHANGED previewVars

\* setupModuleInteractions: the 'serverDetected' listener
ServerDetected(port) ==
    /\ Become(IF port # 0 THEN updatePreview(World, LocalhostUrl(port), clock) ELSE World)
    /\ UNCHANGED <<shellChunk, terminalWrites, clock, restoredRepo>>

\* setupModuleInteractions: the 'webContainerPort' listener, handlePortChange
WebContainerPort(port) ==
    /\ Become(updatePreview(World, LocalhostUrl(port), clock))
    /\ UNCHANGED <<shellChunk, terminalWrites, clock, restoredRepo>>

\* the URL field's Enter key
SubmitUrl(target) ==
    /\ Become(updatePreview(World, target, clock))
    /\ UNCHANGED <<shellChunk, terminalWrites, clock, restoredRepo>>

\* the refresh button, and the auto-refresh interval while it is enabled
RefreshPreview ==
    /\ Become(refreshPreview(World, clock))
    /\ UNCHANGED <<shellChunk, terminalWrites, clock, restoredRepo>>

\* the auto-refresh button
ToggleAutoRefresh ==
    /\ Become(toggleAutoRefresh(World, clock))
    /\ UNCHANGED <<shellChunk, terminalWrites, clock, restoredRepo>>

\* the console button
ToggleConsole ==
    /\ Become(toggleConsole(World))
    /\ UNCHANGED <<shellChunk, terminalWrites, clock, restoredRepo>>

\* the Load button of connectExistingUI: a repository that loads is remembered
LoadRepoClick(repoUrl, loads) ==
    /\ stored' = IF loads THEN ("lastRepository" :> [url |-> repoUrl, timestamp |-> clock]) @@ stored
                 ELSE stored
    /\ UNCHANGED <<shellChunk, terminalWrites, currentURL, autoRefreshEnabled, consoleHidden,
                   iframe, previewError, clock, restoredRepo>>

\* time passes
Tick ==
    /\ clock + TickHours <= MaxClock
    /\ clock' = clock + TickHours
    /\ UNCHANGED <<shellChunk, terminalWrites, currentURL, autoRefreshEnabled, consoleHidden,
                   iframe, previewError, stored, restoredRepo>>

\* the page is loaded again: the PreviewManager is constructed and restores its
\* saved state, then BrowserNodeApp.loadInitialState loads the last repository
StartSession ==
    /\ Become(loadSavedState(Constructed(stored), clock))
    /\ restoredRepo' = IF "lastRepository" \in DOMAIN stored
                       THEN [url |-> stored["lastRepository"].url, at |-> clock]
                       ELSE NoRestore
    /\ UNCHANGED <<shellChunk, terminalWrites, clock>>

SessionIdle ==
    /\ shellChunk = StringOutput(<< >>)
    /\ terminalWrites = 0
    /\ currentURL = NoPreviewUrl

PreviewIdle ==
    /\ autoRefreshEnabled = FALSE
    /\ consoleHidden = TRUE
    /\ iframe = NoPreviewUrl
    /\ previewError = ""
    /\ stored = EmptyObj
    /\ clock = 0
    /\ restoredRepo = NoRestore

(***************************************************************************)
(* Project type detection over bounded manifests                           *)
(***************************************************************************)
MaxDeps == 2

MaxDevDeps == 1

VARIABLES
    manifestIn,      \* the package.json content handed to detection
    detected,        \* the importer's project type ("" before detection)
    detectorResult   \* ProjectDetector's answer ("" before detection)

detectVars == <<manifestIn, detected, detectorResult>>

DepNames ==
    {"astro", "next", "nuxt", "react", "react-scripts", "vue", "angular", "svelte",
     "express", "fastify", "koa", "vite", "lodash"}

DevScripts == {"", "astro dev", "next dev", "vite", "node index.js"}

DepsOf(names) == [n \in names |-> "^1.0.0"]

ManifestOf(deps, devDeps, dev) ==
    ("name" :> "remote-name") @@ ("dependencies" :> DepsOf(deps))
      @@ ("devDependencies" :> DepsOf(devDeps))
      @@ ("scripts" :> IF dev = "" THEN EmptyObj ELSE ("dev" :> dev))

DetectManifests ==
    {NoContent, Content("invalid", "", "", EmptyObj)}
      \cup {Content("json", "", "", ManifestOf(deps, devDeps, dev)) :
               deps \in {S \in SUBSET DepNames : Cardinality(S) <= MaxDeps},
               devDeps \in {S \in SUBSET DepNames : Cardinality(S) <= MaxDevDeps},
               dev \in DevScripts}

\* createProjectFromRepository's detection step
DetectProjectType ==
    /\ detected = ""
    /\ detected' = ImportedProjectType(manifestIn)
    /\ UNCHANGED <<manifestIn, detectorResult>>

\* ProjectDetector.detectProjectType applied to the same content
DetectorDetectProjectType ==
    /\ detectorResult = ""
    /\ detectorResult' = ProjectDetector_detectProjectType(manifestIn)
    /\ UNCHANGED <<manifestIn, detected>>

DetectIdle ==
    /\ manifestIn = NoContent
    /\ detected = ""
    /\ detectorResult = ""

(***************************************************************************)
(* Manifest generation.  The importer builds its package.json from the     *)
(* template of the detected type and the repository's own manifest         *)
(* (GitHubRepository.createEnhancedPackageJson); a scaffolded project gets *)
(* its package.json from fixed defaults and the caller's options           *)
(* (WebContainerHelper.createDefaultPackageJson).                          *)
(***************************************************************************)
VARIABLES mergeRemote, mergeType, mergeData, mergeOptions, enhanced, defaulted

manifestVars == <<mergeRemote, mergeType, mergeData, mergeOptions, enhanced, defaulted>>

\* WebContainerHelper.createDefaultPackageJson(name, options)
createDefaultPackageJson(name, options) ==
    ("name" :> IF name # "" THEN name ELSE "webcontainer-project")
      @@ ("version" :> "1.0.0")
      @@ ("main" :> "index.js")
      @@ ("scripts" :>
            Spread(("start" :> "node index.js")
                     @@ ("dev" :> IF Truthy(options, "devCommand") THEN options["devCommand"]
                                  ELSE "node index.js")
                     @@ ("build" :> "echo \"No build script specified\"")
                     @@ ("test" :> "echo \"Error: no test specified\" && exit 1"),
                   ObjField(options, "scripts")))
      @@ ("author" :> IF Truthy(options, "author") THEN options["author"] ELSE "")
      @@ ("license" :> IF Truthy(options, "license") THEN options["license"] ELSE "MIT")
      @@ ("dependencies" :> ObjField(options, "dependencies"))
      @@ ("devDependencies" :> ObjField(options, "devDependencies"))

\* every object whose keys are a subset of those of obj, with obj's values
SubObjects(obj) == {[k \in K |-> obj[k]] : K \in SUBSET DOMAIN obj}

\* an object with the field, or without it
Optional(key, values) == {EmptyObj} \cup {key :> v : v \in values}

\* the manifests a repository can carry: any of two scripts, one dependency,
\* one devDependency, and name, version and license absent, empty or set
MergeManifests ==
    {Spread(Spread(Spread(n, v), l),
            ("scripts" :> s) @@ ("dependencies" :> d) @@ ("devDependencies" :> dd)) :
        n \in Optional("name", {"", "remote-name"}),
        v \in Optional("version", {"", "2.0.0"}),
        l \in Optional("license", {"", "Apache-2.0"}),
        s \in SubObjects(("dev" :> "b") @@ ("build" :> "c")),
        d \in SubObjects("astro" :> "^3.0.0"),
        dd \in SubObjects("vite" :> "^5.0.0")}

\* what a caller can pass to createProject as options
MergeOptions ==
    {Spread(Spread(c, ("scripts" :> s)), d) :
        c \in Optional("devCommand", {"", "npm run dev"}),
        s \in SubObjects(("dev" :> "d") @@ ("lint" :> "e")),
        d \in Optional("dependencies", {"express" :> "^4.18.0"})}

MergeTypes == {"node", "astro"}

NoManifest == [made |-> FALSE, json |-> EmptyObj]

Made(json) == [made |-> TRUE, json |-> json]

\* loadRepository's call, after the manifest and the type are known
CreateEnhancedPackageJson ==
    /\ ~enhanced.made
    /\ enhanced' = Made(createEnhancedPackageJson("widgets", "acme", mergeData, mergeRemote,
                                                  mergeType))
    /\ UNCHANGED <<mergeRemote, mergeType, mergeData, mergeOptions, defaulted>>

\* WebContainerManager.createProject's call
CreateDefaultPackageJson ==
    /\ ~defaulted.made
    /\ defaulted' = Made(createDefaultPackageJson("widgets", mergeOptions))
    /\ UNCHANGED <<mergeRemote, mergeType, mergeData, mergeOptions, enhanced>>

ManifestIdle ==
    /\ mergeRemote = NoContent
    /\ mergeType = "node"
    /\ mergeData = NoRepoData
    /\ mergeOptions = EmptyObj
    /\ enhanced = NoManifest
    /\ defaulted = NoManifest

(***************************************************************************)
(* Scaffolding from a template tag: createProjectFromTemplate of the       *)
(* modular application (GitHubRepository) and of the consolidated one, and *)
(* ProjectTypeHelper.getProjectConfig.  The files of a template are        *)
(* written one after the other, each write awaited.                        *)
(***************************************************************************)
VARIABLES tplImpl, template, tplPc, tplWritten, tplOutcome, tplConfig

templateVars == <<tplImpl, template, tplPc, tplWritten, tplOutcome, tplConfig>>

\* the tags of the template dialog, and tags no template table has
TemplateTags == {"vanilla-js", "react", "vite", "express", "node", "svelte", ""}

NoTemplate == [known |-> FALSE, files |-> <<>>]

TemplateOf(files) == [known |-> TRUE, files |-> files]

\* templates[template] in GitHubRepository.createProjectFromTemplate
ModularTemplates(tag) ==
    CASE tag = "vanilla-js" -> TemplateOf(<<"package.json", "index.js", "index.html", "README.md">>)
      [] tag = "react" ->
            TemplateOf(<<"package.json", "public/index.html", "src/index.js", "src/App.js",
                         "README.md">>)
      [] tag = "vite" ->
            TemplateOf(<<"package.json", "index.html", "main.js", "style.css", "README.md">>)
      [] tag = "express" ->
            TemplateOf(<<"package.json", "server.js", "public/index.html", "README.md">>)
      [] OTHER -> NoTemplate

\* templates[template] in main-consolidated.js
ConsolidatedTemplates(tag) ==
    CASE tag = "vanilla-js" -> TemplateOf(<<"package.json", "index.html", "index.js", "README.md">>)
      [] tag = "vite" -> TemplateOf(<<"package.json", "index.html", "main.js", "README.md">>)
      [] tag = "express" -> TemplateOf(<<"package.json", "server.js", "README.md">>)
      [] OTHER -> NoTemplate

Templates(tag) ==
    IF tplImpl = "modular" THEN ModularTemplates(tag) ELSE ConsolidatedTemplates(tag)

\* GitHubRepository.createProjectFromTemplate up to its first await: an unknown
\* tag throws out of the method
CreateProjectFromTemplate ==
    /\ tplImpl = "modular" /\ tplPc = "start"
    /\ IF ModularTemplates(template).known
       THEN tplPc' = "files" /\ UNCHANGED tplOutcome
       ELSE tplPc' = "done" /\ tplOutcome' = "threw"
    /\ UNCHANGED <<tplImpl, template, tplWritten, tplConfig>>

\* createProjectFromTemplate of main-consolidated.js up to the mkdir: an unknown
\* tag throws into the function's own catch, which shows a failure notification
ConsolidatedCreateProjectFromTemplate ==
    /\ tplImpl = "consolidated" /\ tplPc = "start"
    /\ IF ConsolidatedTemplates(template).known
       THEN tplPc' = "files" /\ UNCHANGED tplOutcome
       ELSE tplPc' = "done" /\ tplOutcome' = "failed"
    /\ UNCHANGED <<tplImpl, template, tplWritten, tplConfig>>

\* one turn of the loop over Object.entries of the template's files, and the
\* success notification after the last
CreateTemplateFiles ==
    /\ tplPc = "files"
    /\ LET files == Templates(template).files
       IN  IF Len(tplWritten) < Len(files)
           THEN /\ tplWritten' = Append(tplWritten, files[Len(tplWritten) + 1])
                /\ UNCHANGED <<tplPc, tplOutcome>>
           ELSE /\ tplPc' = "done"
                /\ tplOutcome' = "created"
                /\ UNCHANGED tplWritten
    /\ UNCHANGED <<tplImpl, template, tplConfig>>

\* ProjectTypeHelper.getProjectConfig applied to the tag
GetProjectConfig ==
    /\ tplConfig = EmptyObj
    /\ tplConfig' = ("config" :> getProjectConfig(template))
    /\ UNCHANGED <<tplImpl, template, tplPc, tplWritten, tplOutcome>>

TemplateIdle ==
    /\ tplImpl = "modular"
    /\ template = ""
    /\ tplPc = "done"
    /\ tplWritten = <<>>
    /\ tplOutcome = ""
    /\ tplConfig = EmptyObj

(***************************************************************************)
(* Project names.  A name is a string, modelled as the sequence of its     *)
(* characters over a small alphabet: a lower-case letter, an upper-case    *)
(* letter, a digit, '.', '-', '_', a blank and a punctuation mark.         *)
(***************************************************************************)
MaxNameLen == 4

NameChars == {"a", "B", "1", ".", "-", "_", " ", "!"}

Names == UNION {[1..n -> NameChars] : n \in 0..MaxNameLen}

\* the characters /[a-z0-9.-]/i matches
SafeChars == {"a", "b", "B", "1", ".", "-"}

\* .replace(/[^a-z0-9.-]/gi, '_')
ReplaceUnsafe(s) == [i \in 1..Len(s) |-> IF s[i] \in SafeChars THEN s[i] ELSE "_"]

\* .replace(/_+/g, '_')
RECURSIVE CollapseUnderscores(_)
CollapseUnderscores(s) ==
    IF Len(s) < 2 THEN s
    ELSE IF s[1] = "_" /\ s[2] = "_" THEN CollapseUnderscores(Tail(s))
    ELSE <<s[1]>> \o CollapseUnderscores(Tail(s))

\* .replace(/^_|_$/g, ''): one '_' at the start, and one at the end of the rest
TrimUnderscores(s) ==
    LET rest == IF s # <<>> /\ Head(s) = "_" THEN Tail(s) ELSE s
    IN  IF rest # <<>> /\ rest[Len(rest)] = "_" THEN SubSeq(rest, 1, Len(rest) - 1) ELSE rest

\* sanitizeFilename with the trim applied before the collapse
sanitizeFilenameTrimFirst(filename) ==
    CollapseUnderscores(TrimUnderscores(ReplaceUnsafe(filename)))

\* FileSystemHelper.sanitizeFilename
sanitizeFilename(filename) ==
    TrimUnderscores(CollapseUnderscores(ReplaceUnsafe(filename)))

\* String.prototype.toLowerCase
toLowerCase(s) == [i \in 1..Len(s) |-> IF s[i] = "B" THEN "b" ELSE s[i]]

\* .replace(/\s+/g, '-')
RECURSIVE ReplaceBlanks(_)
ReplaceBlanks(s) ==
    IF s = <<>> THEN <<>>
    ELSE IF Head(s) # " " THEN <<Head(s)>> \o ReplaceBlanks(Tail(s))
    ELSE IF Len(s) >= 2 /\ s[2] = " " THEN ReplaceBlanks(Tail(s))
    ELSE <<"-">> \o ReplaceBlanks(Tail(s))

\* the name createCustomProject writes into package.json
CustomProjectName(name) == ReplaceBlanks(toLowerCase(name))

VARIABLES projectName, sanitized, resanitized, customName, importName

nameVars == <<projectName, sanitized, resanitized, customName, importName>>

NoName == [made |-> FALSE, value |-> <<>>]

NameOf(value) == [made |-> TRUE, value |-> value]

\* sanitizeFilename applied to the requested name
SanitizeFilename ==
    /\ ~sanitized.made
    /\ sanitized' = NameOf(sanitizeFilename(projectName))
    /\ UNCHANGED <<projectName, resanitized, customName, importName>>

\* sanitizeFilename applied to its own result
SanitizeAgain ==
    /\ sanitized.made /\ ~resanitized.made
    /\ resanitized' = NameOf(sanitizeFilename(sanitized.value))
    /\ UNCHANGED <<projectName, sanitized, customName, importName>>

\* String.prototype.trim
RECURSIVE trim(_)
trim(s) ==
    IF s = <<>> THEN s
    ELSE IF Head(s) = " " THEN trim(Tail(s))
    ELSE IF s[Len(s)] = " " THEN trim(SubSeq(s, 1, Len(s) - 1))
    ELSE s

\* the template dialog's Create Custom button: the trimmed name, when it is not
\* empty, goes to createCustomProject
CreateCustomProject ==
    /\ trim(projectName) # <<>> /\ ~customName.made
    /\ customName' = NameOf(CustomProjectName(trim(projectName)))
    /\ UNCHANGED <<projectName, sanitized, resanitized, importName>>

\* createEnhancedPackageJson for a repository of that name without a manifest
CreateImportedName ==
    /\ projectName # <<>> /\ ~importName.made
    /\ importName' =
          NameOf(createEnhancedPackageJson(projectName, "acme",
                     createFallbackRepoData("acme", projectName), NoContent, "node")["name"])
    /\ UNCHANGED <<projectName, sanitized, resanitized, customName>>

NameIdle ==
    /\ projectName = <<>>
    /\ sanitized = NoName
    /\ resanitized = NoName
    /\ customName = NoName
    /\ importName = NoName

(***************************************************************************)
(* The preview's console.  A message is known by its arrival number.       *)
(***************************************************************************)
MaxConsoleArrivals == 160

ConsoleLimit == 100

ConsoleKeep == 50

VARIABLES consoleMessages, arrived

consoleVars == <<consoleMessages, arrived>>

\* Array.prototype.slice(-n)
SliceLast(s, n) == IF Len(s) <= n THEN s ELSE SubSeq(s, Len(s) - n + 1, Len(s))

\* addConsoleMessage that keeps the oldest entries: slice(0, 50)
addConsoleMessageKeepOldest(messages, message) ==
    LET pushed == Append(messages, message)
    IN  IF Len(pushed) > ConsoleLimit THEN SubSeq(pushed, 1, ConsoleKeep) ELSE pushed

\* PreviewManager.addConsoleMessage
addConsoleMessage(messages, message) ==
    LET pushed == Append(messages, message)
    IN  IF Len(pushed) > ConsoleLimit THEN SliceLast(pushed, ConsoleKeep) ELSE pushed

\* the iframe's console monitor reports a message
AddConsoleMessage ==
    /\ arrived < MaxConsoleArrivals
    /\ arrived' = arrived + 1
    /\ consoleMessages' = addConsoleMessage(consoleMessages, arrived + 1)

\* PreviewManager.clearConsole
ClearConsole ==
    /\ consoleMessages # <<>>
    /\ consoleMessages' = <<>>
    /\ UNCHANGED arrived

ConsoleIdle ==
    /\ consoleMessages = <<>>
    /\ arrived = 0

(***************************************************************************)
(* TerminalManager's shell input.  A command is a string, modelled as the  *)
(* sequence of the pieces it is made of; every blocklisted pattern that    *)
(* occurs in a command occurs inside one piece.                            *)
(***************************************************************************)
MaxCommandPieces == 2

MaxShellWrites == 2

CommandPieces == {"npm install", " && ", "rm -rf /", "SUDO RM x", "prettier --format"}

Commands == UNION {[1..n -> CommandPieces] : n \in 1..MaxCommandPieces}

\* dangerousCommands of TerminalHelper.isSafeCommand
dangerousCommands ==
    {"rm -rf /", "sudo rm", "mkfs", "dd if=", "format", "del /s", "rmdir /s", ":(){ :|:& };:"}

\* the blocklisted patterns that command.toLowerCase() includes inside a piece
PatternsIn(piece) ==
    CASE piece = "rm -rf /" -> {"rm -rf /"}
      [] piece = "SUDO RM x" -> {"sudo rm"}
      [] piece = "prettier --format" -> {"format"}
      [] OTHER -> {}

\* TerminalHelper.isSafeCommand
isSafeCommand(command) ==
    ~\E i \in 1..Len(command) : PatternsIn(command[i]) \cap dangerousCommands # {}

VARIABLES
    shellWriter,    \* TerminalManager.shellWriter is set
    shellInput,     \* what was written to the shell's input, in order
    terminalNotes   \* the notices written to the terminal instead

terminalVars == <<shellWriter, shellInput, terminalNotes>>

Shell == [writer |-> shellWriter, input |-> shellInput, notes |-> terminalNotes]

BecomeShell(t) ==
    /\ shellWriter' = t.writer
    /\ shellInput' = t.input
    /\ terminalNotes' = t.notes

\* TerminalManager.writeToShell
writeToShell(t, command) ==
    IF ~isSafeCommand(command)
    THEN [t EXCEPT !.notes = @ \cup {"Command blocked for safety"}]
    ELSE IF t.writer THEN [t EXCEPT !.input = Append(@, command)]
    ELSE t

\* TerminalManager.runCommand
runCommand(t, command) ==
    IF t.writer THEN [t EXCEPT !.input = Append(@, command \o <<"\r\n">>)]
    ELSE [t EXCEPT !.notes = @ \cup {"Command queued"}]

\* startShell: setupShellInput takes the writer of the shell's input
StartShell ==
    /\ ~shellWriter
    /\ shellWriter' = TRUE
    /\ UNCHANGED <<shellInput, terminalNotes>>

WriteToShell(command) ==
    /\ Len(shellInput) < MaxShellWrites
    /\ BecomeShell(writeToShell(Shell, command))

RunCommand(command) ==
    /\ Len(shellInput) < MaxShellWrites
    /\ BecomeShell(runCommand(Shell, command))

TerminalIdle ==
    /\ shellWriter = FALSE
    /\ shellInput = <<>>
    /\ terminalNotes = {}

(***************************************************************************)
(* Deep links and sharing.  The page is opened with ?repo=R&cmd=C;         *)
(* handleUrlParameters loads R from a timer and, in the modular            *)
(* application, runs C from a second timer.  handleShare builds a link     *)
(* from the 'lastRepository' entry of the local storage.                   *)
(***************************************************************************)
VARIABLES
    linkCmd,   \* the cmd parameter of the page's URL
    linkPc,    \* where handleUrlParameters stands
    shareUrl   \* the link handleShare built last

linkVars == <<linkCmd, linkPc, shareUrl>>

\* no cmd parameter, or an empty one
NoCommand == <<>>

LinkCommands == {NoCommand, <<"npm install">>, <<"npm install", " && ", "rm -rf /">>}

\* encodeURIComponent, and what URLSearchParams.get makes of it
encodeURIComponent(value) == [encoded |-> value]

decodeURIComponent(text) == text.encoded

NoShare == [made |-> FALSE, query |-> EmptyObj]

\* handleShare: origin and path, and ?repo= when a last repository is stored
handleShare(store) ==
    [made |-> TRUE,
     query |-> IF "lastRepository" \in DOMAIN store
               THEN "repo" :> encodeURIComponent(store["lastRepository"].url)
               ELSE EmptyObj]

\* where a load that resolved regardless of its outcome would lead
AfterLoadAnyOutcome(implName, result, cmd) ==
    IF implName = "modular" /\ cmd # NoCommand THEN "cmdArmed"
    ELSE IF result = "ok" THEN "done" ELSE "failed"

\* handleUrlParameters after `await loadRepository(repo)`: the catch block on a
\* throw, the command timer in the modular application when cmd is given
AfterLoad(implName, result, cmd) ==
    IF result # "ok" THEN "failed"
    ELSE IF implName = "modular" /\ cmd # NoCommand THEN "cmdArmed"
    ELSE "done"

\* handleUrlParameters: with a repo parameter the load timer is armed
HandleUrlParameters ==
    /\ linkPc = "opened"
    /\ linkPc' = IF url["A"] # NoUrl THEN "armed" ELSE "done"
    /\ UNCHANGED <<linkCmd, shareUrl>>
    /\ UNCHANGED <<importVars, terminalVars>>

\* the load timer fires: loadRepository(repo) is called
LinkLoadTimer ==
    /\ linkPc = "armed"
    /\ linkPc' = "loading"
    /\ ctl' = [ctl EXCEPT !["A"] = StartCtl]
    /\ UNCHANGED <<impl, net, remoteManifest, remoteFiles, url, repoData, pkgContent,
                   projectType, reqCount, written, fs, dirs>>
    /\ UNCHANGED <<linkCmd, shareUrl>>
    /\ UNCHANGED terminalVars

\* a step of the load
LinkLoadStep ==
    /\ linkPc = "loading"
    /\ ImportStep("A")
    /\ UNCHANGED <<linkVars, terminalVars>>

\* the awaited load resolves or throws
LinkLoadSettled ==
    /\ linkPc = "loading" /\ ctl["A"].pc = "done"
    /\ linkPc' = AfterLoad(impl, ctl["A"].result, linkCmd)
    /\ UNCHANGED <<linkCmd, shareUrl>>
    /\ UNCHANGED <<importVars, terminalVars>>

\* the command timer fires: this.modules.terminal.runCommand(cmd)
LinkCommandTimer ==
    /\ linkPc = "cmdArmed"
    /\ linkPc' = "done"
    /\ BecomeShell(runCommand(Shell, linkCmd))
    /\ UNCHANGED <<linkCmd, shareUrl>>
    /\ UNCHANGED importVars

\* the shell starts while the page loads
LinkStartShell ==
    /\ StartShell
    /\ UNCHANGED <<linkVars, importVars>>

\* the share button
HandleShare ==
    /\ shareUrl' = handleShare(stored)
    /\ UNCHANGED <<linkCmd, linkPc>>
    /\ UNCHANGED <<importVars, terminalVars>>

LinkIdle ==
    /\ linkCmd = NoCommand
    /\ linkPc = "done"
    /\ shareUrl = NoShare

(***************************************************************************)
(* WebContainerManager: booting the runtime.  Every WebContainer.boot is   *)
(* numbered; an instance is known by the number of the boot that gave it,  *)
(* and 0 stands for null.  A call of bootWebContainer runs up to its next  *)
(* await in one step.                                                      *)
(***************************************************************************)
MaxBoots == 3

BootCalls == {1, 2, 3}

VARIABLES
    webcontainerInstance,  \* WebContainerManager.webcontainerInstance
    isBooting,             \* WebContainerManager.isBooting
    bootPromise,           \* the boot WebContainerManager.bootPromise stands for
    boots,                 \* the boots started: "pending", "resolved" or "rejected"
    bootCalls,             \* each call of bootWebContainer: where it stands
    supported,             \* WebContainerHelper.checkBrowserSupport().supported
    cleaned                \* cleanup() ran and bootWebContainer was not called since

bootVars ==
    <<webcontainerInstance, isBooting, bootPromise, boots, bootCalls, supported, cleaned>>

NotCalled == [pc |-> "idle", promise |-> 0, result |-> 0]

Manager == [instance |-> webcontainerInstance, booting |-> isBooting, promise |-> bootPromise]

BecomeManager(m) ==
    /\ webcontainerInstance' = m.instance
    /\ isBooting' = m.booting
    /\ bootPromise' = m.promise

\* bootWebContainer that looks at the instance only
bootEntryInstanceOnly(m) ==
    IF m.instance # 0 THEN "instance" ELSE "boot"

\* the two early returns of bootWebContainer
bootEntry(m) ==
    IF m.instance # 0 THEN "instance"
    ELSE IF m.booting /\ m.promise # 0 THEN "promise"
    ELSE "boot"

\* the catch and the finally block of bootWebContainer
BootFailed(m) == [m EXCEPT !.instance = 0, !.promise = 0, !.booting = FALSE]

\* a call of bootWebContainer, up to its return or its first await
BootWebContainer(c) ==
    /\ bootCalls[c].pc = "idle"
    /\ cleaned' = FALSE
    /\ UNCHANGED supported
    /\ CASE bootEntry(Manager) = "instance" ->
              /\ bootCalls' = [bootCalls EXCEPT ![c] =
                                  [pc |-> "resolved", promise |-> 0,
                                   result |-> webcontainerInstance]]
              /\ UNCHANGED <<webcontainerInstance, isBooting, bootPromise, boots>>
         [] bootEntry(Manager) = "promise" ->
              /\ bootCalls' = [bootCalls EXCEPT ![c] =
                                  [pc |-> "awaitPromise", promise |-> bootPromise,
                                   result |-> 0]]
              /\ UNCHANGED <<webcontainerInstance, isBooting, bootPromise, boots>>
         [] bootEntry(Manager) = "boot" /\ ~supported ->
              /\ BecomeManager(BootFailed(Manager))
              /\ bootCalls' = [bootCalls EXCEPT ![c] =
                                  [pc |-> "rejected", promise |-> 0, result |-> 0]]
              /\ UNCHANGED boots
         [] bootEntry(Manager) = "boot" /\ supported ->
              /\ Len(boots) < MaxBoots
              /\ boots' = Append(boots, "pending")
              /\ BecomeManager([Manager EXCEPT !.booting = TRUE, !.promise = Len(boots) + 1])
              /\ bootCalls' = [bootCalls EXCEPT ![c] =
                                  [pc |-> "awaitBoot", promise |-> Len(boots) + 1,
                                   result |-> 0]]

\* WebContainer.boot settles
PerformBoot(b, ok) ==
    /\ b \in 1..Len(boots) /\ boots[b] = "pending"
    /\ boots' = [boots EXCEPT ![b] = IF ok THEN "resolved" ELSE "rejected"]
    /\ UNCHANGED <<webcontainerInstance, isBooting, bootPromise, bootCalls, supported, cleaned>>

\* `this.webcontainerInstance = await this.bootPromise` resumes in the call that
\* started the boot: the instance is stored, or the catch block runs
ResumeBoot(c) ==
    /\ bootCalls[c].pc = "awaitBoot"
    /\ boots[bootCalls[c].promise] # "pending"
    /\ IF boots[bootCalls[c].promise] = "resolved"
       THEN /\ BecomeManager([Manager EXCEPT !.instance = bootCalls[c].promise])
            /\ bootCalls' = [bootCalls EXCEPT ![c].pc = "awaitEnvironment"]
       ELSE /\ BecomeManager(BootFailed(Manager))
            /\ bootCalls' = [bootCalls EXCEPT ![c].pc = "rejected"]
    /\ UNCHANGED <<boots, supported, cleaned>>

\* getEnvironmentInfo, which never throws, resolves: the call returns
\* this.webcontainerInstance and the finally block runs
ResumeEnvironment(c) ==
    /\ bootCalls[c].pc = "awaitEnvironment"
    /\ bootCalls' = [bootCalls EXCEPT ![c].pc = "resolved",
                                      ![c].result = webcontainerInstance]
    /\ BecomeManager([Manager EXCEPT !.booting = FALSE])
    /\ UNCHANGED <<boots, supported, cleaned>>

\* a call that returned the boot promise settles with it
ResumePromise(c) ==
    /\ bootCalls[c].pc = "awaitPromise"
    /\ boots[bootCalls[c].promise] # "pending"
    /\ bootCalls' = [bootCalls EXCEPT ![c] =
                        IF boots[bootCalls[c].promise] = "resolved"
                        THEN [pc |-> "resolved", promise |-> @.promise, result |-> @.promise]
                        ELSE [pc |-> "rejected", promise |-> @.promise, result |-> 0]]
    /\ UNCHANGED <<webcontainerInstance, isBooting, bootPromise, boots, supported, cleaned>>

\* WebContainerManager.cleanup
Cleanup ==
    /\ BecomeManager([instance |-> 0, booting |-> FALSE, promise |-> 0])
    /\ cleaned' = TRUE
    /\ UNCHANGED <<boots, bootCalls, supported>>

BootStep ==
    \/ \E c \in BootCalls : BootWebContainer(c)
    \/ \E b \in 1..MaxBoots, ok \in BOOLEAN : PerformBoot(b, ok)
    \/ \E c \in BootCalls : ResumeBoot(c)
    \/ \E c \in BootCalls : ResumeEnvironment(c)
    \/ \E c \in BootCalls : ResumePromise(c)

BootIdle ==
    /\ webcontainerInstance = 0
    /\ isBooting = FALSE
    /\ bootPromise = 0
    /\ boots = <<>>
    /\ bootCalls = [c \in BootCalls |-> NotCalled]
    /\ supported = TRUE
    /\ cleaned = FALSE

(***************************************************************************)
(* PreviewManager: the auto-refresh interval.  The manager keeps the       *)
(* handle of the last setInterval in autoRefreshInterval; the handle is    *)
(* null, that of a running interval, or that of an interval cleared.       *)
(***************************************************************************)
VARIABLES
    autoRefreshInterval,  \* PreviewManager.autoRefreshInterval
    intervals             \* the intervals set by the manager and still running

refreshVars == <<autoRefreshInterval, intervals>>

Timers == [interval |-> autoRefreshInterval, running |-> intervals]

NoTimers == [interval |-> "null", running |-> 0]

BecomeTimers(t) ==
    /\ autoRefreshInterval' = t.interval
    /\ intervals' = t.running

\* clearInterval of a handle
clearInterval(t) ==
    [t EXCEPT !.running = IF t.interval = "running" THEN @ - 1 ELSE @]

\* toggleAutoRefresh, on the interval: `enabled` is the flag once flipped
toggleInterval(t, enabled) ==
    IF enabled THEN [interval |-> "running", running |-> t.running + 1]
    ELSE IF t.interval # "null" THEN [clearInterval(t) EXCEPT !.interval = "null"]
    ELSE t

\* loadSavedState, on the interval
loadSavedInterval(w, t, now) ==
    LET saved == loadState(w.store, "preview_current", now)
    IN  IF saved.present /\ saved.state.autoRefreshEnabled
        THEN toggleInterval(t, ~w.autoRefreshEnabled)
        ELSE t

\* the auto-refresh button
ToggleAutoRefreshInterval ==
    /\ ToggleAutoRefresh
    /\ BecomeTimers(toggleInterval(Timers, ~autoRefreshEnabled))

\* PreviewManager.loadSavedState, called on the manager as it stands
LoadSavedState ==
    /\ Become(loadSavedState(World, clock))
    /\ BecomeTimers(loadSavedInterval(World, Timers, clock))
    /\ UNCHANGED <<shellChunk, terminalWrites, clock, restoredRepo>>

\* the page is loaded again, and its intervals are gone with the old page
StartSessionInterval ==
    /\ StartSession
    /\ BecomeTimers(loadSavedInterval(Constructed(stored), NoTimers, clock))

\* PreviewManager.destroy: the interval is cleared and the iframe removed; the
\* handle and autoRefreshEnabled are left as they are
Destroy ==
    /\ BecomeTimers(IF autoRefreshInterval # "null"
                    THEN [clearInterval(Timers) EXCEPT !.interval = "cleared"]
                    ELSE Timers)
    /\ Become([World EXCEPT !.currentURL = NoPreviewUrl, !.iframe = NoPreviewUrl])
    /\ UNCHANGED <<shellChunk, terminalWrites, clock, restoredRepo>>

\* a preview that changes nothing of the interval
KeepInterval(step) == step /\ UNCHANGED refreshVars

RefreshIdle ==
    /\ autoRefreshInterval = "null"
    /\ intervals = 0

(***************************************************************************)
(* PreviewManager: the iframes of the preview.  Every iframe created by    *)
(* updatePreview is kept with its loading overlay, its 30-second timeout   *)
(* and the function its onload property holds; thisIframe is the index of  *)
(* this.iframe, 0 for null.                                                *)
(***************************************************************************)
MaxFrames == 3

VARIABLES
    frames,      \* the iframes created so far
    thisIframe,  \* PreviewManager.iframe
    statusText   \* PreviewManager.statusText.textContent

frameVars == <<frames, thisIframe, statusText>>

\* PreviewHelper.createIframe and createLoadingOverlay
createIframe(target) ==
    [url |-> target, attached |-> FALSE, loaded |-> FALSE, overlay |-> TRUE,
     onload |-> "none", timeout |-> "none"]

\* PreviewHelper.setupIframeHandlers: onload calls the onLoad callback, and the
\* timeout is armed
setupIframeHandlers(frame) == [frame EXCEPT !.onload = "onLoad", !.timeout = "armed"]

\* PreviewHelper.monitorConsole: assigns iframe.onload
monitorConsole(frame) == [frame EXCEPT !.onload = "monitorConsole"]

\* iframe.remove() of this.iframe
removeIframe(all, i) == IF i = 0 THEN all ELSE [all EXCEPT ![i].attached = FALSE]

\* the `load` and `error` listeners added with { once: true }
clearTimeout(frame) ==
    [frame EXCEPT !.timeout = IF @ = "armed" THEN "cleared" ELSE @]

\* PreviewManager.updatePreview, on the iframes
UpdatePreviewFrame(target) ==
    /\ SubmitUrl(target)
    /\ IF target = NoPreviewUrl THEN UNCHANGED frameVars
       ELSE IF ~validateIframeURL(target).valid
       THEN /\ frames' = removeIframe(frames, thisIframe)
            /\ UNCHANGED <<thisIframe, statusText>>
       ELSE /\ Len(frames) < MaxFrames
            /\ statusText' = "Loading..."
            /\ frames' = Append(removeIframe(frames, thisIframe),
                                [monitorConsole(setupIframeHandlers(createIframe(target)))
                                    EXCEPT !.attached = TRUE])
            /\ thisIframe' = Len(frames) + 1

\* the onError callback of updatePreview, called for the iframe f
OnError(f, reason) ==
    /\ Become(showError(World, reason))
    /\ statusText' = "Error"
    /\ UNCHANGED <<thisIframe, shellChunk, terminalWrites, clock, restoredRepo>>

\* an attached iframe fires `load`: its onload property runs, then the listener
\* that clears the timeout
FrameLoad(f) ==
    /\ f \in 1..Len(frames)
    /\ frames[f].attached /\ ~frames[f].loaded
    /\ frames' = [frames EXCEPT ![f] =
                     [clearTimeout(frames[f]) EXCEPT
                         !.loaded = TRUE,
                         !.overlay = IF frames[f].onload = "onLoad" THEN FALSE ELSE @]]
    /\ statusText' = IF frames[f].onload = "onLoad" THEN "Loaded" ELSE statusText
    /\ UNCHANGED <<thisIframe, shellChunk, terminalWrites, currentURL, clock, restoredRepo>>
    /\ UNCHANGED previewVars

\* an attached iframe fires `error`
FrameError(f) ==
    /\ f \in 1..Len(frames)
    /\ frames[f].attached /\ ~frames[f].loaded
    /\ frames' = removeIframe([frames EXCEPT ![f] =
                                  [clearTimeout(frames[f]) EXCEPT !.overlay = FALSE]],
                              thisIframe)
    /\ OnError(f, "Failed to load iframe")

\* the 30 seconds of an iframe's timeout are over
FrameTimeout(f) ==
    /\ f \in 1..Len(frames)
    /\ frames[f].timeout = "armed"
    /\ frames' = removeIframe([frames EXCEPT ![f].timeout = "fired", ![f].overlay = FALSE],
                              thisIframe)
    /\ OnError(f, "Iframe loading timeout")

FrameIdle ==
    /\ frames = <<>>
    /\ thisIframe = 0
    /\ statusText = ""

(***************************************************************************)
(* Template scaffolding: the files written, in the runtime's file system   *)
(***************************************************************************)
VARIABLES
    tplFs,     \* the file system the template is written into: path -> content
    tplBefore  \* the file system before the template was requested

scaffoldVars == <<tplFs, tplBefore>>

TemplateFile == Content("template", "", "", EmptyObj)

\* the name of the project: `name` of the template in
\* GitHubRepository.createProjectFromTemplate, `${template}-project` in
\* main-consolidated.js
ProjectName(implName, tag) ==
    IF implName = "modular" /\ tag = "express" THEN "express-server" ELSE tag \o "-project"

\* the keys of the templates' files, split at "/"
SplitPath(filePath) ==
    CASE filePath = "public/index.html" -> <<"public", "index.html">>
      [] filePath = "src/index.js" -> <<"src", "index.js">>
      [] filePath = "src/App.js" -> <<"src", "App.js">>
      [] OTHER -> <<filePath>>

\* the path a file of the template is written at: createTemplateFiles hands the
\* key to WebContainerManager.writeFile, which normalizes it; main-consolidated
\* writes `/${projectName}/${filePath}`
TemplatePath(implName, tag, filePath) ==
    IF implName = "modular" THEN normalizePath(SplitPath(filePath))
    ELSE <<ProjectName(implName, tag)>> \o SplitPath(filePath)

\* one turn of the loop over the template's files, with its write
WriteTemplateFile ==
    /\ CreateTemplateFiles
    /\ tplFs' = IF Len(tplWritten') > Len(tplWritten)
                THEN (TemplatePath(tplImpl, template, tplWritten'[Len(tplWritten')])
                          :> TemplateFile) @@ tplFs
                ELSE tplFs
    /\ UNCHANGED tplBefore

\* steps that write no file
KeepFiles(step) == step /\ UNCHANGED scaffoldVars

\* an earlier project in its own directory, next to the workspace's files
EarlierProject ==
    (<<"my-app", "package.json">> :> Content("remote", "acme", "widgets", EmptyObj))
        @@ InitialFiles

ScaffoldIdle ==
    /\ tplFs = EmptyObj
    /\ tplBefore = EmptyObj

(***************************************************************************)
(* Specifications                                                          *)
(***************************************************************************)
vars == <<importVars, classifierVars, sessionVars, detectVars, manifestVars, templateVars, nameVars, previewVars,
         consoleVars, terminalVars, linkVars, bootVars,
         refreshVars,
         frameVars,
         scaffoldVars>>

ImportIdle ==
    /\ impl = "modular"
    /\ net = "down"
    /\ remoteManifest = NoContent
    /\ remoteFiles = {}
    /\ url = [o \in Ops |-> NoUrl]
    /\ ctl = [o \in Ops |-> IdleCtl]
    /\ repoData = [o \in Ops |-> NoRepoData]
    /\ pkgContent = [o \in Ops |-> NoContent]
    /\ projectType = [o \in Ops |-> "node"]
    /\ reqCount = [o \in Ops |-> << >>]
    /\ written = [o \in Ops |-> {}]
    /\ fs = InitialFiles
    /\ dirs = {}

\* every part of the program outside `parts` is at rest
IdleBut(parts) ==
    /\ IF "import" \in parts THEN TRUE ELSE ImportIdle
    /\ IF "classifier" \in parts THEN TRUE ELSE ClassifierIdle
    /\ IF "session" \in parts THEN TRUE ELSE SessionIdle
    /\ IF "detect" \in parts THEN TRUE ELSE DetectIdle
    /\ IF "manifest" \in parts THEN TRUE ELSE ManifestIdle
    /\ IF "template" \in parts THEN TRUE ELSE TemplateIdle
    /\ IF "name" \in parts THEN TRUE ELSE NameIdle
    /\ IF "preview" \in parts THEN TRUE ELSE PreviewIdle
    /\ IF "console" \in parts THEN TRUE ELSE ConsoleIdle
    /\ IF "terminal" \in parts THEN TRUE ELSE TerminalIdle
    /\ IF "link" \in parts THEN TRUE ELSE LinkIdle
    /\ IF "boot" \in parts THEN TRUE ELSE BootIdle
    /\ IF "refresh" \in parts THEN TRUE ELSE RefreshIdle
    /\ IF "frame" \in parts THEN TRUE ELSE FrameIdle
    /\ IF "scaffold" \in parts THEN TRUE ELSE ScaffoldIdle

\* and stays so
FrameBut(parts) ==
    /\ IF "import" \in parts THEN TRUE ELSE UNCHANGED importVars
    /\ IF "classifier" \in parts THEN TRUE ELSE UNCHANGED classifierVars
    /\ IF "session" \in parts THEN TRUE ELSE UNCHANGED sessionVars
    /\ IF "detect" \in parts THEN TRUE ELSE UNCHANGED detectVars
    /\ IF "manifest" \in parts THEN TRUE ELSE UNCHANGED manifestVars
    /\ IF "template" \in parts THEN TRUE ELSE UNCHANGED templateVars
    /\ IF "name" \in parts THEN TRUE ELSE UNCHANGED nameVars
    /\ IF "preview" \in parts THEN TRUE ELSE UNCHANGED previewVars
    /\ IF "console" \in parts THEN TRUE ELSE UNCHANGED consoleVars
    /\ IF "terminal" \in parts THEN TRUE ELSE UNCHANGED terminalVars
    /\ IF "link" \in parts THEN TRUE ELSE UNCHANGED linkVars
    /\ IF "boot" \in parts THEN TRUE ELSE UNCHANGED bootVars
    /\ IF "refresh" \in parts THEN TRUE ELSE UNCHANGED refreshVars
    /\ IF "frame" \in parts THEN TRUE ELSE UNCHANGED frameVars
    /\ IF "scaffold" \in parts THEN TRUE ELSE UNCHANGED scaffoldVars

\* one import
InitOneImport == InitImport /\ IdleBut({"import"})

NextOneImport ==
    /\ \E o \in Ops : ImportStep(o)
    /\ FrameBut({"import"})

SpecImport == InitOneImport /\ [][NextOneImport]_vars

\* the classifier applied to one input
InitClassifier ==
    /\ output \in Outputs
    /\ portResult = Unset
    /\ readyResult = Unset
    /\ errorResult = Unset
    /\ IdleBut({"classifier"})

NextClassifier ==
    /\ ParseServerPort \/ ContainsReadyMessage \/ ContainsError
    /\ FrameBut({"classifier"})

SpecClassifier == InitClassifier /\ [][NextClassifier]_vars

\* the session's handlers
InitSession == SessionIdle /\ PreviewIdle /\ IdleBut({"session", "preview"})

NextSession ==
    /\ \/ \E c \in SessionChunks : ShellOutput(c)
       \/ \E port \in EventPorts : ServerDetected(port)
       \/ \E port \in EventPorts : WebContainerPort(port)
    /\ FrameBut({"session", "preview"})

SpecSession == InitSession /\ [][NextSession]_vars

\* the stream keeps delivering what the shell emits
FairSpecSession ==
    SpecSession /\ WF_vars((\E c \in SessionChunks : ShellOutput(c)) /\ FrameBut({"session", "preview"}))

\* detection applied to one manifest
InitDetect ==
    /\ manifestIn \in DetectManifests
    /\ detected = ""
    /\ detectorResult = ""
    /\ IdleBut({"detect"})

NextDetect ==
    /\ DetectProjectType \/ DetectorDetectProjectType
    /\ FrameBut({"detect"})

SpecDetect == InitDetect /\ [][NextDetect]_vars

\* two imports of repositories with different names, interleaved
InitConcurrent ==
    /\ impl \in {"modular", "consolidated"}
    /\ net \in {"down", "main"}
    /\ remoteManifest \in {NoContent, Content("json", "", "", ManifestAstro)}
    /\ remoteFiles \in {{}, {IndexJsPath}}
    /\ url \in {u \in [Ops -> {UrlWidgets, UrlSsh, UrlGadgetsGit}] :
                   u["A"] # UrlGadgetsGit /\ u["B"] = UrlGadgetsGit}
    /\ ctl = [o \in Ops |-> StartCtl]
    /\ repoData = [o \in Ops |-> NoRepoData]
    /\ pkgContent = [o \in Ops |-> NoContent]
    /\ projectType = [o \in Ops |-> "node"]
    /\ reqCount = [o \in Ops |-> << >>]
    /\ written = [o \in Ops |-> {}]
    /\ fs = InitialFiles
    /\ dirs = {}
    /\ IdleBut({"import"})

SpecConcurrent == InitConcurrent /\ [][NextOneImport]_vars

\* manifest generation applied to one repository manifest and one set of options
InitManifest ==
    /\ IdleBut({"manifest"})
    /\ mergeRemote \in {NoContent} \cup {Content("json", "acme", "widgets", m) : m \in MergeManifests}
    /\ mergeType \in MergeTypes
    /\ mergeData \in {createFallbackRepoData("acme", "widgets"), RemoteRepoData("acme", "widgets")}
    /\ mergeOptions \in MergeOptions
    /\ enhanced = NoManifest
    /\ defaulted = NoManifest

NextManifest ==
    /\ CreateEnhancedPackageJson \/ CreateDefaultPackageJson
    /\ FrameBut({"manifest"})

SpecManifest == InitManifest /\ [][NextManifest]_vars

\* one scaffold request, any tag
InitTemplate ==
    /\ IdleBut({"template"})
    /\ tplImpl \in {"modular", "consolidated"}
    /\ template \in TemplateTags
    /\ tplPc = "start"
    /\ tplWritten = <<>>
    /\ tplOutcome = ""
    /\ tplConfig = EmptyObj

NextTemplate ==
    /\ \/ CreateProjectFromTemplate
       \/ ConsolidatedCreateProjectFromTemplate
       \/ CreateTemplateFiles
       \/ GetProjectConfig
    /\ FrameBut({"template"})

SpecTemplate == InitTemplate /\ [][NextTemplate]_vars

\* one requested project name, any string
InitName ==
    /\ IdleBut({"name"})
    /\ projectName \in Names
    /\ sanitized = NoName
    /\ resanitized = NoName
    /\ customName = NoName
    /\ importName = NoName

NextName ==
    /\ SanitizeFilename \/ SanitizeAgain \/ CreateCustomProject \/ CreateImportedName
    /\ FrameBut({"name"})

SpecName == InitName /\ [][NextName]_vars

\* the preview's controls, the Load button and page reloads, as time passes
InitPreview == SessionIdle /\ PreviewIdle /\ IdleBut({"session", "preview"})

NextPreview ==
    /\ \/ \E target \in PreviewTargets : SubmitUrl(target)
       \/ RefreshPreview
       \/ ToggleAutoRefresh
       \/ ToggleConsole
       \/ \E loads \in BOOLEAN : LoadRepoClick(UrlWidgets, loads)
       \/ Tick
       \/ StartSession
    /\ FrameBut({"session", "preview"})

SpecPreview == InitPreview /\ [][NextPreview]_vars

\* the console of one preview
InitConsole == ConsoleIdle /\ IdleBut({"console"})

NextConsole ==
    /\ AddConsoleMessage \/ ClearConsole
    /\ FrameBut({"console"})

SpecConsole == InitConsole /\ [][NextConsole]_vars

\* the terminal's programmatic entry points
InitTerminal == TerminalIdle /\ IdleBut({"terminal"})

NextTerminal ==
    /\ \/ StartShell
       \/ \E command \in Commands : WriteToShell(command)
       \/ \E command \in Commands : RunCommand(command)
    /\ FrameBut({"terminal"})

SpecTerminal == InitTerminal /\ [][NextTerminal]_vars

\* the page opened from a deep link, over a storage that is empty or holds the
\* last repository of an earlier session
InitDeepLink ==
    /\ IdleBut({"import", "terminal", "link", "preview"})
    /\ impl \in {"modular", "consolidated"}
    /\ net \in {"down", "main"}
    /\ remoteManifest \in {NoContent, Content("json", "", "", ManifestAstro)}
    /\ remoteFiles = {}
    /\ url \in {u \in [Ops -> {NoUrl, UrlWidgets, UrlExample}] : u["B"] = NoUrl}
    /\ ctl = [o \in Ops |-> IdleCtl]
    /\ repoData = [o \in Ops |-> NoRepoData]
    /\ pkgContent = [o \in Ops |-> NoContent]
    /\ projectType = [o \in Ops |-> "node"]
    /\ reqCount = [o \in Ops |-> << >>]
    /\ written = [o \in Ops |-> {}]
    /\ fs = InitialFiles
    /\ dirs = {}
    /\ TerminalIdle
    /\ linkCmd \in LinkCommands
    /\ linkPc = "opened"
    /\ shareUrl = NoShare
    /\ autoRefreshEnabled = FALSE
    /\ consoleHidden = TRUE
    /\ iframe = NoPreviewUrl
    /\ previewError = ""
    /\ stored \in {EmptyObj, "lastRepository" :> [url |-> UrlGadgetsGit, timestamp |-> 0]}
    /\ clock = 0
    /\ restoredRepo = NoRestore

NextDeepLink ==
    /\ \/ HandleUrlParameters
       \/ LinkLoadTimer
       \/ LinkLoadStep
       \/ LinkLoadSettled
       \/ LinkCommandTimer
       \/ LinkStartShell
       \/ HandleShare
    /\ UNCHANGED previewVars
    /\ FrameBut({"import", "terminal", "link", "preview"})

SpecDeepLink == InitDeepLink /\ [][NextDeepLink]_vars

\* calls of bootWebContainer, overlapping or not, in a browser that supports
\* the runtime or not
InitBoot ==
    /\ IdleBut({"boot"})
    /\ webcontainerInstance = 0
    /\ isBooting = FALSE
    /\ bootPromise = 0
    /\ boots = <<>>
    /\ bootCalls = [c \in BootCalls |-> NotCalled]
    /\ supported \in BOOLEAN
    /\ cleaned = FALSE

NextBoot == BootStep /\ FrameBut({"boot"})

SpecBoot == InitBoot /\ [][NextBoot]_vars

\* the same with cleanup() called at any moment
NextBootCleanup == (BootStep \/ Cleanup) /\ FrameBut({"boot"})

SpecBootCleanup == InitBoot /\ [][NextBootCleanup]_vars

\* the auto-refresh button, restores of the saved state, page reloads and
\* destroy, as time passes
InitRefresh ==
    /\ SessionIdle /\ PreviewIdle /\ RefreshIdle
    /\ IdleBut({"session", "preview", "refresh"})

NextRefresh ==
    /\ \/ ToggleAutoRefreshInterval
       \/ LoadSavedState
       \/ StartSessionInterval
       \/ Destroy
       \/ \E target \in PreviewTargets : KeepInterval(SubmitUrl(target))
       \/ KeepInterval(Tick)
    /\ FrameBut({"session", "preview", "refresh"})

SpecRefresh == InitRefresh /\ [][NextRefresh]_vars

\* previews shown one after another; their iframes load, fail or time out
InitFrame ==
    /\ SessionIdle /\ PreviewIdle /\ FrameIdle
    /\ IdleBut({"session", "preview", "frame"})

NextFrame ==
    /\ \/ \E target \in PreviewTargets : UpdatePreviewFrame(target)
       \/ \E f \in 1..MaxFrames : FrameLoad(f)
       \/ \E f \in 1..MaxFrames : FrameError(f)
       \/ \E f \in 1..MaxFrames : FrameTimeout(f)
    /\ FrameBut({"session", "preview", "frame"})

SpecFrame == InitFrame /\ [][NextFrame]_vars

\* one scaffold request, any tag, into a workspace that holds files already
InitScaffold ==
    /\ IdleBut({"template", "scaffold"})
    /\ tplImpl \in {"modular", "consolidated"}
    /\ template \in TemplateTags
    /\ tplPc = "start"
    /\ tplWritten = <<>>
    /\ tplOutcome = ""
    /\ tplConfig = EmptyObj
    /\ tplFs \in {EmptyObj, InitialFiles, EarlierProject}
    /\ tplBefore = tplFs

NextScaffold ==
    /\ \/ KeepFiles(CreateProjectFromTemplate)
       \/ KeepFiles(ConsolidatedCreateProjectFromTemplate)
       \/ WriteTemplateFile
       \/ KeepFiles(GetProjectConfig)
    /\ FrameBut({"template", "scaffold"})

SpecScaffold == InitScaffold /\ [][NextScaffold]_vars

\* one import, and files written through writeFile around and during it
InitWrites ==
    /\ impl \in {"modular", "consolidated"}
    /\ net \in {"down", "main"}
    /\ remoteManifest \in {NoContent, Content("json", "", "", ManifestAstro)}
    /\ remoteFiles \in {{}, {AstroIndexPath}}
    /\ url = [o \in Ops |-> IF o = "A" THEN UrlWidgets ELSE NoUrl]
    /\ ctl = [o \in Ops |-> IF o = "A" THEN StartCtl ELSE IdleCtl]
    /\ repoData = [o \in Ops |-> NoRepoData]
    /\ pkgContent = [o \in Ops |-> NoContent]
    /\ projectType = [o \in Ops |-> "node"]
    /\ reqCount = [o \in Ops |-> << >>]
    /\ written = [o \in Ops |-> {}]
    /\ fs = InitialFiles
    /\ dirs = {}
    /\ IdleBut({"import"})

NextWrites ==
    /\ \/ ImportStep("A")
       \/ \E path \in WritePaths : WriteFile("B", path)
       \/ WriteFileMkdir("B")
       \/ WriteFileWrite("B")
    /\ FrameBut({"import"})

SpecWrites == InitWrites /\ [][NextWrites]_vars

(***************************************************************************)
(* Properties of the importer                                              *)
(***************************************************************************)
Done(o) == ctl[o].pc = "done"

HoldsKind(path, kind) == path \in DOMAIN fs /\ fs[path].kind = kind

\* the project directory of o holds a package.json named after the repository
HoldsManifest(o) ==
    /\ HoldsKind(RepoPath(o, PackageJsonPath), "manifest")
    /\ fs[RepoPath(o, PackageJsonPath)].json["name"] = Repo(o)

\* C1: for every URL the parse step accepts, when every network request of the
\* import fails the load completes without an error and the project directory
\* holds a package.json named after the repository, a synthesized README.md and
\* a synthesized index.js.
C1_MaterializedWithoutNetwork ==
    (Parsed("A").ok /\ net = "down" /\ Done("A")) =>
        /\ ctl["A"].result = "ok"
        /\ HoldsManifest("A")
        /\ HoldsKind(RepoPath("A", ReadmePath), "readme")
        /\ HoldsKind(RepoPath("A", IndexJsPath), "index")

\* an accepted URL, a dead network, and the load ended by an error
C1_LoadFailed ==
    /\ url["A"] = UrlWidgets /\ net = "down" /\ Done("A")
    /\ ctl["A"].result = "RepoNotFound"
    /\ RepoPath("A", PackageJsonPath) \notin DOMAIN fs

NonGitHubUrls == Urls \ GitHubUrls

\* C2: a URL that is not a GitHub repository URL ends the import with an
\* invalid-URL error and no network request is issued at any point.
C2_RejectedWithoutRequests ==
    url["A"] \in NonGitHubUrls =>
        /\ reqCount["A"] = << >>
        /\ Done("A") => ctl["A"].result = "InvalidUrl"

\* https://example.com/a/b got as far as a request for repository info
C2_RequestIssued ==
    /\ url["A"] = UrlExample
    /\ <<"info", <<>>>> \in DOMAIN reqCount["A"]
    /\ Done("A") /\ ctl["A"].result = "RepoNotFound"

InOwnDirectory(o, path) == IsPrefix(<<Repo(o)>>, path)

\* every path an operation wrote or created lies under its own directory and
\* not under the other operation's
WritesIsolated ==
    \A o \in Ops : \A path \in written[o] :
        /\ InOwnDirectory(o, path)
        /\ \A other \in Ops \ {o} : ~InOwnDirectory(other, path)

\* the file at `path` of o's directory exists and was made for o's repository
HoldsOwn(o, path) ==
    /\ RepoPath(o, path) \in DOMAIN fs
    /\ fs[RepoPath(o, path)].owner = Owner(o)
    /\ fs[RepoPath(o, path)].repo = Repo(o)

\* C3: two interleaved loads of repositories with different names write only
\* under their own directories, and once both are over each directory holds
\* its own project's files.
C3_ConcurrentLoads ==
    /\ WritesIsolated
    /\ (\A o \in Ops : Done(o)) =>
          \A o \in Ops : /\ HoldsOwn(o, PackageJsonPath)
                         /\ HoldsOwn(o, ReadmePath)

\* both loads are over and neither directory was created
C3_NothingMaterialized ==
    /\ \A o \in Ops : Done(o) /\ written[o] = {}
    /\ url["A"] = UrlWidgets /\ url["B"] = UrlGadgetsGit

FileKinds == {"rawMain", "rawMaster", "api"}

Requested(o, kind, path) == <<kind, path>> \in DOMAIN reqCount[o]

\* C8: for each path fetched in an import the sources are asked in the order
\* raw main, raw master, contents API, each at most once, none after an
\* earlier one succeeded, and the content used is that of the first success
\* or none.
C8_FetchOrder ==
    \A o \in Ops : \A req \in DOMAIN reqCount[o] :
        req[1] \in FileKinds =>
            /\ reqCount[o][req] <= 1
            /\ req[1] = "rawMaster" =>
                  /\ Requested(o, "rawMain", req[2])
                  /\ ~Responds("rawMain", Owner(o), Repo(o), req[2])
            /\ req[1] = "api" =>
                  /\ Requested(o, "rawMaster", req[2])
                  /\ ~Responds("rawMaster", Owner(o), Repo(o), req[2])

\* the raw main URL of index.js was requested twice in one import
C8_RequestedTwice ==
    /\ Requested("A", "rawMain", IndexJsPath)
    /\ reqCount["A"][<<"rawMain", IndexJsPath>>] = 2

InfoFailed(o) ==
    \A i \in 1..Len(InfoAttempts) : ~Responds(InfoAttempts[i], Owner(o), Repo(o), <<>>)

\* C9: when the repository-info request fails the import goes on with a
\* synthesized record (repo name, owner, empty description, default branch
\* main) and is never ended by that failure.
C9_InfoFallback ==
    (Parsed("A").ok /\ InfoFailed("A") /\ Done("A") /\ isValidPath(RepoPath("A", <<>>))) =>
        /\ ctl["A"].result = "ok"
        /\ repoData["A"].name = Repo("A")
        /\ repoData["A"].owner = Owner("A")
        /\ repoData["A"].description = << >>
        /\ repoData["A"].default_branch = "main"

\* the failed info request ended the import
C9_EndedByInfoFailure ==
    /\ Parsed("A").ok /\ InfoFailed("A") /\ Done("A")
    /\ Requested("A", "info", <<>>)
    /\ ctl["A"].result = "RepoNotFound"
    /\ repoData["A"] = NoRepoData

(***************************************************************************)
(* Properties of the session                                               *)
(***************************************************************************)
DevPorts == {3000, 4321, 9999}

\* the chunk delivered last holds "Local: http://localhost:n"
ChunkAnnounces(n) ==
    /\ terminalWrites > 0
    /\ \E i \in 1..Len(shellChunk.tokens) :
          /\ shellChunk.tokens[i].kind = "local"
          /\ parseInt(shellChunk.tokens[i].digits) = n

\* C4: whenever a chunk on the shell's output stream holds a recognisable
\* dev-server port n, the preview is subsequently pointed at http://localhost:n.
C4_PortReachesPreview ==
    \A n \in DevPorts : ChunkAnnounces(n) ~> (currentURL = LocalhostUrl(n))

\* the chunk announcing port 4321 was written to the terminal and the preview
\* has no URL
C4_AnnouncedNotPreviewed ==
    /\ ChunkAnnounces(4321)
    /\ terminalWrites = MaxTerminalWrites
    /\ currentURL = NoPreviewUrl

(***************************************************************************)
(* Properties of the classifier                                            *)
(***************************************************************************)
\* token i is the only phrase of the chunk, the rest are plain words
SolePhrase(c, i) == \A j \in 1..Len(c) : j # i => c[j].kind = "word"

\* the phrases the port patterns are said to recognise: the framework phrase,
\* localhost:N, and a bare known-port literal
Recognised(t) ==
    \/ t.kind \in {"local", "localhost"}
    \/ t.kind = "bare" /\ t.digits \in KnownPorts

\* C5: for every recognised port pattern and every number n in its port
\* position, parseServerPort returns n when 3000 <= n <= 9999 and no port
\* otherwise.
C5_PortInRange ==
    (output.type = "string" /\ portResult.status # "unset") =>
        \A i \in 1..Len(output.tokens) :
            (Recognised(output.tokens[i]) /\ SolePhrase(output.tokens, i)) =>
                portResult = Returned(IF InDevRange(parseInt(output.tokens[i].digits))
                                      THEN parseInt(output.tokens[i].digits) ELSE 0)

\* "localhost:3000" was parsed and no port came back
C5_LocalhostMissed ==
    /\ output = StringOutput(<<Token("localhost", D3000)>>)
    /\ portResult = Returned(0)

\* the in-range numbers of the tokens of the given kinds
Candidates(c, kinds) ==
    {parseInt(c[i].digits) : i \in {j \in Positions(c, kinds) :
                                       InDevRange(parseInt(c[j].digits))
                                       /\ (c[j].kind = "bare" => c[j].digits \in KnownPorts)}}

\* C6: when a chunk holds in-range candidates of different patterns the port
\* returned is that of the earliest pattern: framework phrase, then
\* localhost:N, then a bare known-port literal.
C6_EarliestPatternWins ==
    (output.type = "string" /\ portResult.status # "unset"
     /\ Positions(output.tokens, {"port", "astroReady"}) = {}) =>
        LET framework == Candidates(output.tokens, {"local"})
            generic == Candidates(output.tokens, {"localhost"})
            bare == Candidates(output.tokens, {"bare"})
        IN  /\ (framework # {} /\ generic \cup bare # {}) =>
                  (portResult.status = "returned" /\ portResult.value \in framework)
            /\ (framework = {} /\ generic # {} /\ bare # {}) =>
                  (portResult.status = "returned" /\ portResult.value \in generic)

\* "localhost:9999 3000 4321" was parsed and the second bare literal came back
C6_BareLiteralWon ==
    /\ output = StringOutput(<<Token("localhost", D9999), Token("bare", D3000),
                               Token("bare", D4321)>>)
    /\ portResult = Returned(4321)

NoSignalInput == output.type # "string" \/ output.tokens = << >>

\* C7: no classifier function ever throws, and for the empty string, null and
\* undefined each returns its no-signal result.
C7_NeverThrows ==
    \A r \in {portResult, readyResult, errorResult} :
        /\ r.status # "threw"
        /\ (NoSignalInput /\ r.status # "unset") => r = Returned(0)

\* null was handed to all three functions and all three threw
C7_ThrewOnNull ==
    /\ output.type = "null"
    /\ portResult = Threw /\ readyResult = Threw /\ errorResult = Threw

(***************************************************************************)
(* Properties of project type detection                                    *)
(***************************************************************************)
Merged(content) ==
    IF content.kind # "json" THEN {}
    ELSE DOMAIN ObjField(content.json, "dependencies")
           \cup DOMAIN ObjField(content.json, "devDependencies")

DevScript(content) ==
    IF content.kind = "json" /\ Has(ObjField(content.json, "scripts"), "dev")
    THEN content.json["scripts"]["dev"] ELSE ""

\* the first entry of a priority list that satisfies `hit`, or `none`
FirstOf(list, hit(_), none) ==
    LET at == {i \in 1..Len(list) : hit(list[i])}
    IN  IF at = {} THEN none ELSE list[Min(at)]

ClaimedPriority ==
    <<"astro", "next", "react", "vue", "angular", "svelte", "express", "fastify", "koa", "vite">>

ImporterPriority ==
    <<"astro", "next", "nuxt", "create-react-app", "react", "vue", "angular", "svelte",
      "express", "fastify", "koa", "vite">>

\* C10 (as stated): detection returns the first entry of astro > next > react >
\* vue > angular > svelte > express > fastify > koa > vite whose signature is in
\* the manifest's dependencies, devDependencies or scripts, and node when none
\* matches or there is no manifest.
C10_PriorityAsStated ==
    LET Signature(name) == name \in Merged(manifestIn)
                              \/ ScriptIncludes(DevScript(manifestIn), name)
        claimed == FirstOf(ClaimedPriority, Signature, "node")
    IN  /\ detected # "" => detected = claimed
        /\ detectorResult # "" => detectorResult = claimed

\* C10 (amended): the importer's detection returns the first entry of astro >
\* next > nuxt > create-react-app (react with react-scripts) > react > vue >
\* angular > svelte > express > fastify > koa > vite found in the merged
\* dependencies and devDependencies, never looks at scripts, and returns node
\* when none matches or no manifest parses; ProjectDetector returns the first
\* of the ten-entry list found in the merged dependencies, else astro, next or
\* vite when scripts.dev names it, else node, and unknown without a manifest.
C10_PriorityOfTheCode ==
    LET InDeps(name) ==
            IF name = "create-react-app"
            THEN {"react", "react-scripts"} \subseteq Merged(manifestIn)
            ELSE name \in Merged(manifestIn)
        InDevScript(name) == ScriptIncludes(DevScript(manifestIn), name)
    IN  /\ detected # "" => detected = FirstOf(ImporterPriority, InDeps, "node")
        /\ detectorResult # "" =>
              detectorResult =
                 IF manifestIn.kind # "json" THEN "unknown"
                 ELSE FirstOf(ClaimedPriority, InDeps,
                              FirstOf(<<"astro", "next", "vite">>, InDevScript, "node"))

\* a manifest with react and react-scripts was detected as create-react-app
C10_DetectedCreateReactApp ==
    /\ manifestIn.kind = "json"
    /\ {"react", "react-scripts"} \subseteq Merged(manifestIn)
    /\ detected = "create-react-app"
    /\ detectorResult = "react"

\* C11: whenever the detected project type is astro, the project present when
\* the import completes holds src/pages/index.astro and astro.config.mjs,
\* whichever remote fetches succeeded.
C11_AstroScaffold ==
    (projectType["A"] = "astro" /\ Done("A")) =>
        /\ RepoPath("A", AstroIndexPath) \in DOMAIN fs
        /\ RepoPath("A", AstroConfigPath) \in DOMAIN fs

\* an astro import completed with the remote index.js and neither astro file
C11_AstroWithoutScaffold ==
    /\ projectType["A"] = "astro" /\ Done("A") /\ ctl["A"].result = "ok"
    /\ HoldsKind(RepoPath("A", IndexJsPath), "remote")
    /\ RepoPath("A", AstroIndexPath) \notin DOMAIN fs
    /\ RepoPath("A", AstroConfigPath) \notin DOMAIN fs

(***************************************************************************)
(* Properties of manifest generation                                       *)
(***************************************************************************)
MergedFields == {"scripts", "dependencies", "devDependencies"}

\* the three layers of a merged field
OverrideLayer(field) == ObjField(mergeOptions, field)

RemoteLayer(field) == ObjField(mergeRemote.json, field)

\* what the importer's template gives when the repository has no manifest
TemplateLayer(field) ==
    createEnhancedPackageJson("widgets", "acme", mergeData, NoContent, mergeType)[field]

\* what a scaffold gets when the caller passes nothing but a dev command
ScaffoldLayer(field) ==
    createDefaultPackageJson("widgets",
        [k \in DOMAIN mergeOptions \cap {"devCommand"} |-> mergeOptions[k]])[field]

\* obj holds exactly the keys of the layers, each with the value of the highest
\* layer that defines it
Layered(obj, layers) ==
    /\ DOMAIN obj = UNION {DOMAIN layers[i] : i \in 1..Len(layers)}
    /\ \A k \in DOMAIN obj :
          LET first == Min({i \in 1..Len(layers) : k \in DOMAIN layers[i]})
          IN  obj[k] = layers[first][k]

ScalarFields == {"name", "version", "license"}

\* C13: each of name, version and license of the importer's manifest is the
\* remote manifest's value when that is present and non-empty, and the generated
\* default otherwise.
C13_ScalarsPreferNonEmpty ==
    enhanced.made =>
        \A f \in ScalarFields :
            enhanced.json[f] = IF Truthy(mergeRemote.json, f) THEN mergeRemote.json[f]
                               ELSE TemplateLayer(f)

\* a remote manifest with "version": "" gave a manifest whose version is empty
C13_EmptyVersionWon ==
    /\ enhanced.made
    /\ Has(mergeRemote.json, "version") /\ mergeRemote.json["version"] = ""
    /\ TemplateLayer("version") = "1.0.0"
    /\ enhanced.json["version"] = ""

(***************************************************************************)
(* Properties of scaffolding                                               *)
(***************************************************************************)
\* C14: a scaffold request whose tag names no template ends with the files of
\* the plain template written and without an error.
C14_UnknownTagFallsBack ==
    (tplPc = "done" /\ tplOutcome # "" /\ ~Templates(template).known) =>
        /\ tplOutcome = "created"
        /\ SeqToSet(tplWritten) = SeqToSet(Templates("vanilla-js").files)

\* the modular application was asked for a svelte scaffold: it threw and wrote
\* nothing, while getProjectConfig answered the node configuration
C14_UnknownTagThrew ==
    /\ tplImpl = "modular" /\ template = "svelte"
    /\ tplPc = "done" /\ tplOutcome = "threw"
    /\ tplWritten = <<>>
    /\ tplConfig = ("config" :> NodeConfig)

(***************************************************************************)
(* Properties of project names                                             *)
(***************************************************************************)
\* C15: the name written into a generated manifest is the slug of the requested
\* project name: unsafe characters replaced by '_', runs of '_' collapsed,
\* leading and trailing '_' removed.
C15_ManifestNameIsSlug ==
    /\ customName.made => customName.value = sanitizeFilename(projectName)
    /\ importName.made => importName.value = sanitizeFilename(projectName)

\* the name "a B!" went into the custom project's manifest as "a-b!"
C15_CustomNameNotSlug ==
    /\ projectName = <<"a", " ", "B", "!">>
    /\ customName = NameOf(<<"a", "-", "b", "!">>)
    /\ sanitizeFilename(projectName) = <<"a", "_", "B">>

\* C16: sanitizing a sanitized name returns it unchanged.
C16_SlugIdempotent ==
    resanitized.made => resanitized.value = sanitized.value

\* "!!a " was sanitized to "a", and sanitizing "a" gave "a"
C16_SanitizedTwice ==
    /\ projectName = <<"!", "!", "a", " ">>
    /\ sanitized = NameOf(<<"a">>)
    /\ resanitized = NameOf(<<"a">>)

(***************************************************************************)
(* Properties of the preview                                               *)
(***************************************************************************)
Rejected(target) == target # NoPreviewUrl /\ ~validateIframeURL(target).valid

PersistedPreview == ObjField(stored, "preview_current")

\* C17: submitting a URL the validator rejects shows the validator's reason and
\* leaves the current URL, the auto-refresh flag, the console flag and the
\* persisted preview entry as they were; the current URL is always null or a
\* URL the validator accepts.
C17_RejectedUrlChangesNothing ==
    /\ [](currentURL = NoPreviewUrl \/ validateIframeURL(currentURL).valid)
    /\ [][\A target \in PreviewTargets :
            (Rejected(target) /\ SubmitUrl(target)) =>
                /\ previewError' = validateIframeURL(target).reason
                /\ UNCHANGED <<currentURL, autoRefreshEnabled, consoleHidden>>
                /\ PersistedPreview' = PersistedPreview]_vars

\* ftp://localhost:3000 was submitted over a loaded preview with auto-refresh
\* on: the error is shown, the URL, the flag and the persisted entry remain
C17_ErrorOverKeptPreview ==
    /\ previewError = "Invalid protocol. Only HTTP and HTTPS are allowed."
    /\ currentURL = LocalhostUrl(3000)
    /\ autoRefreshEnabled
    /\ PersistedPreview # EmptyObj
    /\ PersistedPreview.url = LocalhostUrl(3000)
    /\ PersistedPreview.autoRefreshEnabled

\* the in-memory preview state is what the persisted entry records
InMemorySaved ==
    /\ "preview_current" \in DOMAIN stored
    /\ stored["preview_current"].url = currentURL
    /\ stored["preview_current"].autoRefreshEnabled = autoRefreshEnabled
    /\ stored["preview_current"].consoleOpen = ~consoleHidden

\* C18: after every operation of a session that changes the preview URL, the
\* auto-refresh flag or the console flag, the persisted preview entry equals the
\* in-memory state.
C18_PersistedOnEveryChange ==
    [][(~StartSession /\ <<currentURL, autoRefreshEnabled, consoleHidden>>' #
                             <<currentURL, autoRefreshEnabled, consoleHidden>>)
          => InMemorySaved']_vars

\* in the first session the console is open while the persisted entry, saved
\* when the preview was loaded, says it is closed
C18_ConsoleOpenNotPersisted ==
    /\ restoredRepo = NoRestore /\ clock = 0
    /\ currentURL = LocalhostUrl(3000)
    /\ ~consoleHidden
    /\ "preview_current" \in DOMAIN stored
    /\ ~stored["preview_current"].consoleOpen

\* saved more than 24 hours ago
Expired(key) == key \in DOMAIN stored /\ clock - stored[key].timestamp > maxAge

\* C19: at session start an entry saved more than 24 hours earlier is treated as
\* absent: an expired preview entry restores no preview, an expired
\* last-repository entry restores no repository.
C19_ExpiredEntriesAbsent ==
    [][StartSession =>
          /\ Expired("preview_current") =>
                (currentURL' = NoPreviewUrl /\ ~autoRefreshEnabled' /\ consoleHidden')
          /\ Expired("lastRepository") => restoredRepo' = NoRestore]_vars

\* a repository remembered at hour 0 was loaded again by the session started at
\* hour 36, while the preview entry of hour 0 was not restored
C19_OldRepositoryRestored ==
    /\ clock = MaxClock
    /\ "lastRepository" \in DOMAIN stored /\ stored["lastRepository"].timestamp = 0
    /\ restoredRepo = [url |-> UrlWidgets, at |-> MaxClock]
    /\ "preview_current" \in DOMAIN stored /\ stored["preview_current"].timestamp = 0
    /\ currentURL = NoPreviewUrl

(***************************************************************************)
(* Properties of the console                                               *)
(***************************************************************************)
\* C20: the console buffer holds at most 100 entries, and they are the most
\* recently arrived messages in arrival order: with n entries retained, they are
\* the last n arrivals, so no entry outlives an older one.
C20_BufferIsRecentSuffix ==
    /\ Len(consoleMessages) <= ConsoleLimit
    /\ \A i \in 1..Len(consoleMessages) :
          consoleMessages[i] = arrived - Len(consoleMessages) + i

\* the 101st message arrived: the buffer holds the 50 messages 52..101
C20_TrimmedAtLimit ==
    /\ arrived = ConsoleLimit + 1
    /\ Len(consoleMessages) = ConsoleKeep
    /\ consoleMessages[1] = ConsoleLimit + 2 - ConsoleKeep
    /\ consoleMessages[ConsoleKeep] = ConsoleLimit + 1

(***************************************************************************)
(* Properties of the terminal                                              *)
(***************************************************************************)
\* the command of a write: the text without runCommand's line end
WrittenCommand(text) ==
    IF text # <<>> /\ text[Len(text)] = "\r\n" THEN SubSeq(text, 1, Len(text) - 1) ELSE text

\* C27: no command that contains a blocklisted pattern is ever written to the
\* shell's input, whichever entry point it came through.
C27_NoDangerousWrite ==
    \A i \in 1..Len(shellInput) : isSafeCommand(WrittenCommand(shellInput[i]))

\* runCommand('rm -rf /') reached the shell's input
C27_DangerousCommandRun ==
    /\ shellWriter
    /\ shellInput = << <<"rm -rf /", "\r\n">> >>
    /\ ~isSafeCommand(<<"rm -rf /">>)
    /\ terminalNotes = {}

(***************************************************************************)
(* Properties of deep links                                                *)
(***************************************************************************)
LoadSucceeded == ctl["A"].pc = "done" /\ ctl["A"].result = "ok"

LoadFailed == ctl["A"].pc = "done" /\ ctl["A"].result # "ok"

\* C21: the command of a deep link is written to the shell only after the load
\* of its repository has completed successfully, and never when the load failed.
C21_CommandOnlyAfterLoad ==
    /\ shellInput # <<>> => LoadSucceeded
    /\ LoadFailed => shellInput = <<>>

\* the modular application loaded acme/widgets and then ran the link's command
C21_CommandRanAfterLoad ==
    /\ impl = "modular" /\ url["A"] = UrlWidgets /\ LoadSucceeded
    /\ linkCmd = <<"npm install">>
    /\ linkPc = "done"
    /\ shellInput = << <<"npm install", "\r\n">> >>

\* C22: after a repository was loaded from a deep link with a command, the share
\* action yields a link whose repo parameter decodes to that repository and
\* whose cmd parameter decodes to that command.
C22_ShareReproducesLink ==
    (shareUrl.made /\ LoadSucceeded /\ linkPc = "done" /\ linkCmd # NoCommand) =>
        /\ "repo" \in DOMAIN shareUrl.query
        /\ decodeURIComponent(shareUrl.query["repo"]) = url["A"]
        /\ "cmd" \in DOMAIN shareUrl.query
        /\ decodeURIComponent(shareUrl.query["cmd"]) = linkCmd

\* acme/widgets was loaded from a deep link with a command that ran; the shared
\* link names the repository of an earlier session and no command
C22_SharedAnotherRepository ==
    /\ url["A"] = UrlWidgets /\ LoadSucceeded /\ linkPc = "done"
    /\ linkCmd = <<"npm install">> /\ shellInput # <<>>
    /\ shareUrl.made
    /\ DOMAIN shareUrl.query = {"repo"}
    /\ decodeURIComponent(shareUrl.query["repo"]) = UrlGadgetsGit


(***************************************************************************)
(* Properties of booting the runtime                                       *)
(***************************************************************************)
Pending == {b \in 1..Len(boots) : boots[b] = "pending"}

ResolvedCalls == {c \in BootCalls : bootCalls[c].pc = "resolved"}

\* C23: however calls of bootWebContainer repeat and overlap, at most one
\* underlying boot is in progress, none is while an instance exists, a boot is
\* started again only after the previous one failed, and every call that
\* resolved holds the same instance, the manager's
C23_OneBootOneInstance ==
    /\ Cardinality(Pending) <= 1
    /\ webcontainerInstance # 0 => Pending = {}
    /\ \A b \in 2..Len(boots) : boots[b - 1] = "rejected"
    /\ \A c \in ResolvedCalls :
           /\ bootCalls[c].result # 0
           /\ \A d \in ResolvedCalls : bootCalls[d].result = bootCalls[c].result
           /\ webcontainerInstance # 0 => bootCalls[c].result = webcontainerInstance

\* after a first boot failed, the call that booted again and a call that
\* overlapped it and shared its boot promise both resolved to the one instance
C23_OverlappingCallsShared ==
    /\ Len(boots) = 2
    /\ boots[1] = "rejected"
    /\ \E c, d \in ResolvedCalls :
           /\ c # d
           /\ bootCalls[c].promise = 2
           /\ bootCalls[d].promise = 2
    /\ \E c \in BootCalls : bootCalls[c].pc = "rejected"


\* C28: after cleanup() the manager holds no runtime instance until
\* bootWebContainer is called again, even when a boot was in flight
C28_NoInstanceAfterCleanup ==
    cleaned => webcontainerInstance = 0

\* cleanup() ran during a boot, no call followed, and the manager holds the
\* instance of that boot
C28_InstanceAfterCleanup ==
    /\ cleaned
    /\ webcontainerInstance # 0
    /\ bootPromise = 0


(***************************************************************************)
(* Properties of the auto-refresh interval                                 *)
(***************************************************************************)
\* C29: over any sequence of toggleAutoRefresh, restores of the saved state and
\* destroy, exactly one auto-refresh interval runs while autoRefreshEnabled is
\* true and none runs while it is false
C29_IntervalIffEnabled ==
    intervals = IF autoRefreshEnabled THEN 1 ELSE 0

\* destroy cleared the interval of a manager that stays enabled
C29_EnabledWithoutInterval ==
    /\ autoRefreshEnabled
    /\ autoRefreshInterval = "cleared"
    /\ intervals = 0


(***************************************************************************)
(* Properties of the preview's iframes                                     *)
(***************************************************************************)
\* C25: when the load timeout of an iframe that a later updatePreview has
\* replaced fires, the later iframe stays in place and the preview shows no
\* error: status and error overlay are as before
C25_StaleTimeoutHarmless ==
    [][\A f \in 1..Len(frames) :
          (frames[f].timeout = "armed" /\ frames'[f].timeout = "fired" /\ f # thisIframe)
              => /\ frames'[thisIframe].attached = frames[thisIframe].attached
                 /\ previewError' = previewError
                 /\ statusText' = statusText]_vars

\* the timeout of a replaced iframe has fired; the iframe that replaced it,
\* whose own timeout is still armed, is removed and the preview shows the error
C25_LaterFrameRemoved ==
    /\ thisIframe > 1
    /\ frames[thisIframe].timeout = "armed"
    /\ ~frames[thisIframe].attached
    /\ \E f \in 1..(thisIframe - 1) : frames[f].timeout = "fired"
    /\ previewError = "Iframe loading timeout"
    /\ statusText = "Error"

\* C26: when the current iframe fires load before its timeout has expired, its
\* loading overlay is removed and the status becomes 'Loaded'
C26_LoadCompletes ==
    [][\A f \in 1..Len(frames) :
          (f = thisIframe /\ ~frames[f].loaded /\ frames'[f].loaded
             /\ frames[f].timeout = "armed")
              => /\ ~frames'[f].overlay
                 /\ statusText' = "Loaded"]_vars

\* the current iframe has loaded in time: its timeout is cleared, its loading
\* overlay is still there and the status still reads 'Loading...'
C26_LoadedStillLoading ==
    /\ thisIframe # 0
    /\ frames[thisIframe].loaded
    /\ frames[thisIframe].attached
    /\ frames[thisIframe].timeout = "cleared"
    /\ frames[thisIframe].overlay
    /\ statusText = "Loading..."


(***************************************************************************)
(* Properties of the files a template writes                               *)
(***************************************************************************)
Changed == {p \in DOMAIN tplFs : p \notin DOMAIN tplBefore \/ tplFs[p] # tplBefore[p]}

\* C30: creating a project from a template writes only under the project's own
\* directory: every file created or changed lies below it
C30_WritesUnderProjectDirectory ==
    \A p \in Changed : Len(p) >= 2 /\ p[1] = ProjectName(tplImpl, template)

\* the project is created and the workspace's own package.json, outside any
\* project directory, now holds the template's
C30_WorkspaceFileOverwritten ==
    /\ tplOutcome = "created"
    /\ <<"package.json">> \in DOMAIN tplBefore
    /\ tplBefore[<<"package.json">>] = WorkspaceFile
    /\ tplFs[<<"package.json">>] = TemplateFile


(***************************************************************************)
(* Properties of the order of mkdir and writeFile                          *)
(***************************************************************************)
\* the path of the fs.writeFile the operation is about to issue, <<>> if none
IssuedWrite(o) ==
    CASE ctl[o].pc = "writeFile" -> ctl[o].wpath
      [] ctl[o].pc = "cWritePackage" -> RepoPath(o, PackageJsonPath)
      [] ctl[o].pc = "cWriteReadme" -> RepoPath(o, ReadmePath)
      [] ctl[o].pc = "cWriteIndex" -> RepoPath(o, IndexJsPath)
      [] OTHER -> << >>

====
